---- MODULE Spec2Model ----
(***************************************************************************)
(* Model of the secure chat relay's server core: the session counters      *)
(* (internal/hub/session.go), the AAD builder (internal/hub/aad.go), the   *)
(* per-connection read and write loops (internal/hub client) and the hub   *)
(* event loop (internal/hub/hub.go).                                        *)
(*                                                                         *)
(* Two specifications share the module:                                    *)
(*   Spec     the hub with its connections (goroutines interleaved),       *)
(*   SpecSeq  concurrent callers of Session.NextSeq / AdvanceRecvSeq.      *)
(***************************************************************************)
EXTENDS Integers, Sequences, FiniteSets, TLC

(***************************************************************************)
(* Bounds of the model.                                                    *)
(***************************************************************************)
\* connections that may be opened over the run
NumConns == 2
\* session records in the store; the last one has no keys (see KeyC2S)
NumSessions == 2
\* largest seq_no an inbound frame carries
MaxSeq == 2
\* capacity of a connection's outbound queue (256 in NewClient), scaled down
SendCap == 1
\* width of the modelled sequence counters in bits (64 in the code)
SeqBits == 3
\* goroutines calling the session counters concurrently in SpecSeq
NumCallers == 2
\* calls each of them makes in SpecSeq
MaxCalls == 2

Conns == 1 .. NumConns
Sessions == 1 .. NumSessions
Seqs == 1 .. MaxSeq
Callers == 1 .. NumCallers

(***************************************************************************)
(* Byte strings are sequences of byte values.                              *)
(***************************************************************************)
EmptyStr == << >>
IdA == << 97 >>
IdB == << 98 >>
IdAB == << 97, 98 >>

\* client ids a connection may be opened with (the clientId query parameter)
ClientIds == { IdA, IdB }

NilKey == << "nil", 0 >>
Nonce == "iv"
Plain == "hello"
Fail == "open-failed"

(***************************************************************************)
(* database.Session rows, as the connection's Session object wraps them.   *)
(* The last row carries no keys: a connection bound to it is not           *)
(* authenticated (Client.IsAuthenticated).                                  *)
(***************************************************************************)
KeyC2S(s) == IF s = NumSessions THEN NilKey ELSE << "c2s", s >>
KeyS2C(s) == IF s = NumSessions THEN NilKey ELSE << "s2c", s >>

(***************************************************************************)
(* BuildAAD: sender bytes, recipient bytes, then seq as 8 big-endian       *)
(* bytes, written to one buffer with no separator.                         *)
(***************************************************************************)
RECURSIVE Shr8(_, _)
Shr8(x, k) == IF k = 0 THEN x ELSE Shr8(x \div 256, k - 1)

BigEndianU64(seq) == [ i \in 1 .. 8 |-> Shr8(seq, 8 - i) % 256 ]

BuildAAD(sender, recipient, seq) == sender \o recipient \o BigEndianU64(seq)

(***************************************************************************)
(* AES-GCM as an ideal AEAD: a ciphertext opens to its plaintext exactly   *)
(* under the key, nonce and associated data it was sealed with.            *)
(***************************************************************************)
\* `bound` records the triple the sealer bound the ciphertext to; the cipher
\* itself sees only the bytes in `aad`.
Seal(key, iv, plaintext, triple) ==
    [ key |-> key, iv |-> iv, aad |-> BuildAAD(triple[1], triple[2], triple[3]),
      pt |-> plaintext, bound |-> triple ]

NoContent ==
    [ key |-> NilKey, iv |-> "", aad |-> EmptyStr, pt |-> "",
      bound |-> << EmptyStr, EmptyStr, 0 >> ]

DecryptWithSymmetricAAD(key, content, iv, aad) ==
    IF key # NilKey /\ content.key = key /\ content.iv = iv /\ content.aad = aad
    THEN content.pt
    ELSE Fail

(***************************************************************************)
(* Inbound frames a peer may put on a connection's transport: a frame that *)
(* is not JSON, one without content, one without iv, and frames that name  *)
(* a session, a sender, a recipient and a seq_no and carry a ciphertext    *)
(* sealed under the key of the session they name. For the session a        *)
(* handshake gave keys to, the ciphertext is bound to the frame's own      *)
(* triple, to another sender/recipient pair with the same seq_no, or to    *)
(* the frame's pair with seq_no 1 (an old ciphertext under a new seq_no);  *)
(* one frame carries seq_no 0, and one names the session without keys.     *)
(***************************************************************************)
FramePairs == { << IdA, EmptyStr >>, << IdA, IdB >>, << IdAB, EmptyStr >> }

\* the pair a ciphertext taken from another frame was sealed for
OtherPair(pair) ==
    IF pair = << IdA, EmptyStr >> THEN << IdA, IdB >>
    ELSE IF pair = << IdA, IdB >> THEN << IdAB, EmptyStr >>
    ELSE << IdA, EmptyStr >>

KeyedSessions == Sessions \ { NumSessions }

SealedAs(pair, q) ==
    { << pair[1], pair[2], q >>, << OtherPair(pair)[1], OtherPair(pair)[2], q >>,
      << pair[1], pair[2], 1 >> }

Frame(tag, pair, q, bound, iv) ==
    [ json |-> TRUE, SessionID |-> tag, SenderID |-> pair[1], RecipientID |-> pair[2],
      SeqNo |-> q, Content |-> Seal(KeyC2S(tag), Nonce, Plain, bound), IV |-> iv ]

MalformedFrame ==
    [ json |-> FALSE, SessionID |-> 0, SenderID |-> EmptyStr,
      RecipientID |-> EmptyStr, SeqNo |-> 0, Content |-> NoContent, IV |-> "" ]

EmptyContentFrame ==
    [ json |-> TRUE, SessionID |-> 1, SenderID |-> IdA,
      RecipientID |-> EmptyStr, SeqNo |-> 1, Content |-> NoContent, IV |-> Nonce ]

EmptyIVFrame == Frame(1, << IdA, EmptyStr >>, 1, << IdA, EmptyStr, 1 >>, "")

ZeroSeqFrame == Frame(1, << IdA, EmptyStr >>, 0, << IdA, EmptyStr, 0 >>, Nonce)

ForeignFrame == Frame(NumSessions, << IdA, EmptyStr >>, 0, << IdA, EmptyStr, 0 >>, Nonce)

Frames ==
    { MalformedFrame, EmptyContentFrame, EmptyIVFrame, ZeroSeqFrame, ForeignFrame } \cup
    UNION { { Frame(tag, pair, q, u, Nonce) : u \in SealedAs(pair, q) } :
              tag \in KeyedSessions, pair \in FramePairs, q \in Seqs }

(***************************************************************************)
(* State.                                                                  *)
(***************************************************************************)
VARIABLES
    \* context.Context shared by the hub and every connection
    cancelled,
    \* Hub: clients map, position of Run, the MessageEvent being broadcast,
    \* the map entries the range loop has still to visit, the Send in progress
    clients, hubPc, hubMsg, hubTodo, hubTarget,
    \* Client: HandleWS position, id, session, send channel and its closed
    \* flag, position of ReadPump and WritePump, the pending onMessage
    \* arguments, closeOnce, and whether the websocket is open
    connPc, id, session, send, sendClosed, rdPc, wrPc, rdMsg, once, connOpen,
    \* Session: the two atomic counters
    recvSeq, sendSeq,
    \* history: the (frame session id, session) pairs for which recv_seq was
    \* advanced and for which an AEAD-open was attempted, the seq_no values
    \* delivered per session, whether one was delivered twice, invocations
    \* of onClose and of conn.Close per connection, and for the broadcast in
    \* progress: the recipientID its read loop passed to onMessage, the
    \* clients map at its start, the frames enqueued per connection and the
    \* connections a frame was sealed for; and why the read loop, back at the
    \* top of its loop, dropped the frame it had read, with the frame's
    \* seq_no when AdvanceRecvSeq refused it
    advanced, opened, deliveredSeqs, dupDelivered, closeCalls, connCloses,
    evRecipient, evMembers, evEnq, evSealed, rdDrop, rdSeq,
    \* SpecSeq: goroutines calling the counters of session 1: position, the
    \* argument of AdvanceRecvSeq, the value it loaded, the value NextSeq
    \* obtained, the values returned before the call began, calls left,
    \* what the completed calls returned, and whether a call of
    \* AdvanceRecvSeq has overlapped no other call of it; the calls of
    \* AdvanceRecvSeq with the same seq that a call in progress has
    \* overlapped, and the finished calls of AdvanceRecvSeq with their results
    callPc, callArg, callCur, callRet, callSeen, callsLeft, returned, callAlone,
    callWith, advLog,
    \* SpecHs: the session table, the handshake request and the response in
    \* flight, requests left; the browser client: position of joinChat, its
    \* ephemeral private key, the response as it received it, the keys and
    \* the session id it installed, and whether it has opened the websocket
    store, hsReq, hsResp, hsLeft, cliPc, cliPriv, cliGot, cliPair, cliSessionId,
    socketOpen,
    \* SpecFifo: per connection, the send channel holding numbered frames, the
    \* numbers in the order Client.Send enqueued them, the numbers in the order
    \* WritePump wrote them, the number of Send calls, whether the channel is
    \* closed, and the position of WritePump
    fifoSend, fifoEnqueued, fifoWritten, fifoCalls, fifoClosed, fifoPc,
    \* SpecRx: the browser client's recvSeq, the seqNo of the frames it has
    \* accepted in this session in order, and the frames still to arrive
    rxRecvSeq, rxAccepted, rxLeft,
    \* the browser client's joinChat calls: the global currentHandshakeId,
    \* each call's myHandshakeId and position, the installed sessionId and
    \* keys, the handshake whose socket is currentSocket, and the handshakes
    \* that opened a socket
    currentHandshakeId, myHandshakeId, joinPc, installed, currentSocket, socketsOpened,
    \* the browser client's sendMessage calls: its sendSeq, the frames whose
    \* encryption is pending, the frames put on the socket in order; and the
    \* server's watermark for them with the seqNo it refused
    cliSendSeq, encrypting, wire, srvRecvSeq, srvRejected

hubVars == << clients, hubPc, hubMsg, hubTodo, hubTarget >>
connVars == << connPc, id, session, send, sendClosed, rdPc, wrPc, rdMsg, once, connOpen >>
sessVars == << recvSeq, sendSeq >>
readHist == << advanced, opened, deliveredSeqs, dupDelivered, rdDrop, rdSeq >>
closeHist == << closeCalls, connCloses >>
evVars == << evRecipient, evMembers, evEnq, evSealed >>
histVars == << readHist, closeHist, evVars >>
seqVars == << callPc, callArg, callCur, callRet, callSeen, callsLeft, returned, callAlone,
             callWith, advLog >>
hsVars == << store, hsReq, hsResp, hsLeft, cliPc, cliPriv, cliGot, cliPair, cliSessionId,
             socketOpen >>
fifoVars == << fifoSend, fifoEnqueued, fifoWritten, fifoCalls, fifoClosed, fifoPc >>
rxVars == << rxRecvSeq, rxAccepted, rxLeft >>
jsVars == << currentHandshakeId, myHandshakeId, joinPc, installed, currentSocket,
             socketsOpened, cliSendSeq, encrypting, wire, srvRecvSeq, srvRejected >>
vars == << cancelled, hubVars, connVars, sessVars, histVars, seqVars, hsVars, fifoVars, rxVars, jsVars >>

NoConn == 0
\* SpecSeq's record of results: the values NextSeq returned, whether one was
\* returned twice, the seq values AdvanceRecvSeq accepted, whether one twice
NoReturns == [ next |-> {}, nextTwice |-> FALSE, adv |-> {}, advTwice |-> FALSE ]
NoMsg == [ Sender |-> NoConn, Payload |-> "" ]
\* the arguments of a pending onMessage call; `frame` is the frame they came from
NoRdMsg == [ RecipientID |-> EmptyStr, Payload |-> "", frame |-> MalformedFrame ]

(***************************************************************************)
(* Session (internal/hub/session.go).                                      *)
(***************************************************************************)
SeqMod == 2 ^ SeqBits

\* (mutant) the counter is read, as SendSeq does, and not incremented
NextSeqLoadOnly(cur) == cur

\* sendSeq.Add(1) on an unsigned counter of SeqBits bits
NextSeq(cur) == (cur + 1) % SeqMod

\* (mutant) a seq equal to the watermark is let through
SeqIsStaleStrict(seq, current) == seq < current

\* the test AdvanceRecvSeq makes on the value it loaded
SeqIsStale(seq, current) == seq <= current

\* (mutant) only the seq that follows the watermark is accepted
AdvanceRecvSeqInOrder(seq, current) ==
    IF seq = current + 1
    THEN [ ok |-> TRUE, recv |-> seq ]
    ELSE [ ok |-> FALSE, recv |-> current ]

\* AdvanceRecvSeq as one atomic step (its linearization): the new watermark
\* and the result
AdvanceRecvSeq(seq, current) ==
    IF SeqIsStale(seq, current)
    THEN [ ok |-> FALSE, recv |-> current ]
    ELSE [ ok |-> TRUE, recv |-> seq ]

(***************************************************************************)
(* Client (internal/hub client).                                           *)
(***************************************************************************)
\* (mutant) every connection counts as authenticated
IsAuthenticatedAlways(c) == TRUE

IsAuthenticated(c) ==
    LET c2s == KeyC2S(session[c])
        s2c == KeyS2C(session[c])
    IN  c2s # NilKey /\ s2c # NilKey

\* (mutant) the session check lets every frame through
SessionMatchesAlways(f, c) == TRUE

\* the session check of ReadPump
SessionMatches(f, c) == f.SessionID = session[c]

\* (mutant) every call of Do runs the function
OnceRunsAlways(c) == TRUE

\* sync.Once: whether this call of Do is the one that runs the function
OnceRuns(c) == once[c] = "new"

(***************************************************************************)
(* Hub (internal/hub/hub.go).                                              *)
(***************************************************************************)
\* (mutant) no map entry is taken for the sender
IsSenderNever(client, msg) == FALSE

\* the echo test of broadcastMessage
IsSender(client, msg) == client = msg.Sender

\* registerClient: the clients map after the insert
RegisterInto(cl, client) == cl \cup { client }

(***************************************************************************)
(* Initial state: a running hub, no connection yet, fresh sessions.        *)
(***************************************************************************)
InitSeqIdle ==
    /\ callPc = [ k \in Callers |-> "idle" ]
    /\ callArg = [ k \in Callers |-> 0 ]
    /\ callCur = [ k \in Callers |-> 0 ]
    /\ callRet = [ k \in Callers |-> 0 ]
    /\ callSeen = [ k \in Callers |-> {} ]
    /\ callsLeft = [ k \in Callers |-> 0 ]
    /\ returned = NoReturns
    /\ callAlone = [ k \in Callers |-> FALSE ]
    /\ callWith = [ k \in Callers |-> {} ]
    /\ advLog = {}

InitHub ==
    /\ cancelled = FALSE
    /\ clients = {}
    /\ hubPc = "select"
    /\ hubMsg = NoMsg
    /\ hubTodo = {}
    /\ hubTarget = NoConn
    /\ connPc = [ c \in Conns |-> "new" ]
    /\ id = [ c \in Conns |-> EmptyStr ]
    /\ session = [ c \in Conns |-> 1 ]
    /\ send = [ c \in Conns |-> << >> ]
    /\ sendClosed = [ c \in Conns |-> FALSE ]
    /\ rdPc = [ c \in Conns |-> "idle" ]
    /\ wrPc = [ c \in Conns |-> "idle" ]
    /\ rdMsg = [ c \in Conns |-> NoRdMsg ]
    /\ once = [ c \in Conns |-> "new" ]
    /\ connOpen = [ c \in Conns |-> FALSE ]
    /\ recvSeq = [ s \in Sessions |-> 0 ]
    /\ advanced = {}
    /\ opened = {}
    /\ deliveredSeqs = [ s \in Sessions |-> {} ]
    /\ dupDelivered = FALSE
    /\ closeCalls = [ c \in Conns |-> 0 ]
    /\ connCloses = [ c \in Conns |-> 0 ]
    /\ evRecipient = EmptyStr
    /\ evMembers = {}
    /\ evEnq = [ c \in Conns |-> 0 ]
    /\ evSealed = {}
    /\ rdDrop = [ c \in Conns |-> "none" ]
    /\ rdSeq = [ c \in Conns |-> 0 ]

(***************************************************************************)
(* The handshake endpoint (POST /key-exchange) and the browser client that *)
(* calls it.  Keys, secrets, digests and signatures are symbolic terms: a  *)
(* digest is the tuple of what was hashed, so two digests are equal only   *)
(* when they were computed from the same inputs the same way.              *)
(***************************************************************************)
MaxRequests == 2

ClientPrivs == { "c1", "c2" }
ServerPrivs == { "s1" }
Salts == { "n1", "n2" }

Pub(priv) == << "pub", priv >>
GoodPub(jwk) == jwk[2] \in ClientPrivs

Base64Encode(bytes) == << "b64", bytes >>
Base64Decode(str) == str[2]

\* ECDH: both sides obtain the same secret from their own private key and
\* the other side's public key
DeriveSharedSecret(priv, pub) == << "ecdh", { priv, pub[2] } >>

\* SHA-256(salt || sharedSecret)
DeriveSymmetricKey(sharedSecret, salt) == << "sha256", salt, sharedSecret >>

\* HKDF-Extract(sha256, sharedSecret, salt), then HKDF-Expand with the labels
\* "c2s" and "s2c"
HKDFDeriveKeys(sharedSecret, salt) ==
    LET prk == << "prk", salt, sharedSecret >>
    IN  << << "okm", prk, "c2s" >>, << "okm", prk, "s2c" >> >>

\* the browser's mirror of the key derivation
deriveSessionKeys(sharedSecret, salt) == HKDFDeriveKeys(sharedSecret, Base64Decode(salt))

\* RSASSA-PKCS1-v1_5 over SHA-256 with the key of key.pem; only the holder of
\* key.pem produces a term that verifies
SignPayload(payloadBytes) == << "rs256", "key.pem", payloadBytes >>

verifyServerSignatureAlways(signature, payloadBytes) == TRUE

verifyServerSignature(signature, payloadBytes) == signature = SignPayload(payloadBytes)

NoReq == [ From |-> "none", Method |-> "", Json |-> FALSE, Wrapped |-> FALSE,
           Jwk |-> Pub("none") ]
NoPayload == [ serverPublicKey |-> Pub("none"), salt |-> Base64Encode("none") ]
NoResp == [ To |-> "none", Status |-> 0, Step |-> "", payload |-> Base64Encode(NoPayload),
            signature |-> Base64Encode(<< "none", "none", NoPayload >>), sessionId |-> 0 ]
NoPair == << >>

\* the request performHandshake sends: a POST whose content is the client's
\* public JWK wrapped under the server certificate
ClientRequest(priv) == [ From |-> "client", Method |-> "POST", Json |-> TRUE, Wrapped |-> TRUE,
                         Jwk |-> Pub(priv) ]

\* requests of any other peer: wrong method, a body that is not JSON, a
\* content that does not unwrap, a JWK that is not a P-256 public key
OtherRequests ==
    { [ From |-> "other", Method |-> m, Json |-> j, Wrapped |-> w, Jwk |-> k ] :
        m \in { "GET", "POST" }, j \in BOOLEAN, w \in BOOLEAN,
        k \in { Pub("c1"), Pub("offcurve") } }

\* the steps of the handler in the order the code runs them; "sign" is the
\* last one.  (json.Marshal of a map of strings has no failing input.)
Steps == << "method", "json", "unwrap", "convert", "keygen", "jwk", "secret", "salt",
            "saltdecode", "derive", "insert", "sign" >>
StepIndex(step) == CHOOSE n \in 1 .. Len(Steps) : Steps[n] = step
InternalSteps == { "keygen", "jwk", "secret", "salt", "saltdecode", "derive", "insert", "sign" }
FailPoints == InternalSteps \cup { "none" }

\* the steps that fail for request req when the environment makes step
\* fail fail
FailingSteps(req, fail) ==
    { s \in { "method" } : req.Method # "POST" }
    \cup { s \in { "json" } : ~req.Json }
    \cup { s \in { "unwrap" } : ~req.Wrapped }
    \cup { s \in { "convert" } : ~GoodPub(req.Jwk) }
    \cup { s \in InternalSteps : s = fail }

\* the step at which the handler returns: the first failing one, or "none"
FirstFailure(req, fail) ==
    LET F == FailingSteps(req, fail)
    IN  IF F = { } THEN "none"
        ELSE CHOOSE s \in F : \A o \in F : StepIndex(s) <= StepIndex(o)

\* CreateSession has run (and succeeded) when the handler got past "insert"
Inserted(failure) == failure \in { "none", "sign" }

\* database.CreateSession: one row holding the salt and one key
CreateSession(rows, salt, ephemeralAESKey) ==
    Append(rows, [ Salt |-> salt, EphemeralAESKey |-> ephemeralAESKey ])

\* database.GetSession returns the row's only key; the connection uses it in
\* both directions
StoredPair(sessionId) ==
    << store[sessionId].EphemeralAESKey, store[sessionId].EphemeralAESKey >>

\* status written by KeyExchangeHandler for a return at step failure
KeyExchangeHandlerStatus(failure) ==
    CASE failure = "none" -> 200
      [] failure = "method" -> 405
      [] failure \in { "json", "unwrap", "convert", "secret" } -> 400
      [] OTHER -> 500

\* status written by Controller.HandleKeyExchange: every error returned by
\* conductKeyExchange is answered with 400
HandleKeyExchangeStatus(failure) ==
    CASE failure = "none" -> 200
      [] failure = "method" -> 405
      [] OTHER -> 400

InitHs ==
    /\ store = << >>
    /\ hsReq = NoReq
    /\ hsResp = NoResp
    /\ hsLeft = MaxRequests
    /\ cliPc = "idle"
    /\ cliPriv = "none"
    /\ cliGot = NoResp
    /\ cliPair = NoPair
    /\ cliSessionId = 0
    /\ socketOpen = FALSE

\* the outbound queues followed in SpecFifo; each belongs to one connection
\* and shares nothing with the others
NumQueues == 1
Queues == 1 .. NumQueues

InitFifo ==
    /\ fifoSend = [ c \in Queues |-> << >> ]
    /\ fifoEnqueued = [ c \in Queues |-> << >> ]
    /\ fifoWritten = [ c \in Queues |-> << >> ]
    /\ fifoCalls = [ c \in Queues |-> 0 ]
    /\ fifoClosed = [ c \in Queues |-> FALSE ]
    /\ fifoPc = [ c \in Queues |-> "run" ]

(***************************************************************************)
(* The values the browser's seqNo and recvSeq can hold: a number, or what   *)
(* JSON.parse and arithmetic give when the field is missing.                *)
(***************************************************************************)
MaxRx == 4

JsNum(n) == [ t |-> "number", v |-> n ]
JsUndefined == [ t |-> "undefined", v |-> 0 ]
JsNaN == [ t |-> "NaN", v |-> 0 ]

\* a < b: false whenever an operand is not a number (undefined converts to
\* NaN, and every comparison with NaN is false)
JsLess(a, b) == a.t = "number" /\ b.t = "number" /\ a.v < b.v

\* a + 1
JsPlusOne(a) == IF a.t = "number" THEN JsNum(a.v + 1) ELSE JsNaN

\* joinChat: recvSeq = 0
InitRx ==
    /\ rxRecvSeq = JsNum(0)
    /\ rxAccepted = << >>
    /\ rxLeft = MaxRx

(***************************************************************************)
(* The browser client's joinChat and sendMessage.  What a handshake        *)
(* returns is named after the handshake that obtained it.                  *)
(***************************************************************************)
MaxJoins == 4
MaxSends == 3

Joins == 1 .. MaxJoins
NoSocket == 0
NoKeys == [ sessionId |-> "", keyC2S |-> "null", keyS2C |-> "null" ]

\* the value performHandshake resolves to in the call with handshake id h
HandshakeResult(h) ==
    [ sessionId |-> << "sessionId", h >>, keyC2S |-> << "keyC2S", h >>,
      keyS2C |-> << "keyS2C", h >> ]

\* sendSeq = 1; no sendMessage call yet; the server's recv_seq is 0
InitSend ==
    /\ cliSendSeq = 1
    /\ encrypting = {}
    /\ wire = << >>
    /\ srvRecvSeq = 0
    /\ srvRejected = {}

\* the page as loaded
InitJs ==
    /\ currentHandshakeId = 0
    /\ myHandshakeId = [ j \in Joins |-> 0 ]
    /\ joinPc = [ j \in Joins |-> "idle" ]
    /\ installed = NoKeys
    /\ currentSocket = NoSocket
    /\ socketsOpened = {}
    /\ InitSend

\* the page after one joinChat has run to its end and the socket is open
InitJoined ==
    /\ currentHandshakeId = 1
    /\ myHandshakeId = [ j \in Joins |-> IF j = 1 THEN 1 ELSE 0 ]
    /\ joinPc = [ j \in Joins |-> IF j = 1 THEN "joined" ELSE "idle" ]
    /\ installed = HandshakeResult(1)
    /\ currentSocket = 1
    /\ socketsOpened = { 1 }
    /\ InitSend

InitServer ==
    /\ InitHub /\ sendSeq = [ s \in Sessions |-> 0 ] /\ InitSeqIdle /\ InitHs /\ InitFifo
    /\ InitRx

\* NewSession: the counters of a fresh Session are zero
Init == InitServer /\ InitJs

(***************************************************************************)
(* HandleWS: a peer opens a connection with a client id and a session; the *)
(* handler builds the Client and blocks in Hub.Register until the hub      *)
(* takes it. Connections are opened in index order.                        *)
(***************************************************************************)
\* the Session handed to NewClient for session id s is the one already in
\* memory, with the counters it has
ResumeSession(counters, s) == counters

Connect(c, i, s) ==
    /\ connPc[c] = "new"
    /\ IF c = 1 THEN TRUE ELSE connPc[c - 1] # "new"
    /\ connPc' = [ connPc EXCEPT ![c] = "registering" ]
    /\ id' = [ id EXCEPT ![c] = i ]
    /\ session' = [ session EXCEPT ![c] = s ]
    /\ connOpen' = [ connOpen EXCEPT ![c] = TRUE ]
    /\ recvSeq' = ResumeSession(recvSeq, s)
    /\ sendSeq' = ResumeSession(sendSeq, s)
    /\ UNCHANGED << cancelled, hubVars, send, sendClosed, rdPc, wrPc, rdMsg, once,
                    histVars, seqVars, hsVars, fifoVars, rxVars, jsVars >>

\* the root context is cancelled
Cancel ==
    /\ ~cancelled
    /\ cancelled' = TRUE
    /\ UNCHANGED << hubVars, connVars, sessVars, histVars, seqVars, hsVars, fifoVars, rxVars, jsVars >>

(***************************************************************************)
(* Hub.Run: one select per iteration.                                      *)
(***************************************************************************)
\* (mutant) a channel is also received from while broadcastMessage ranges
HubAtSelectOrRange == hubPc \in { "select", "range" }

\* Run is at its select: the one place where it receives from its channels
HubAtSelect == hubPc = "select"

HubCtxDone ==
    /\ HubAtSelect
    /\ cancelled
    /\ hubPc' = "exited"
    /\ UNCHANGED << cancelled, clients, hubMsg, hubTodo, hubTarget, connVars,
                    sessVars, histVars, seqVars, hsVars, fifoVars, rxVars, jsVars >>

\* case client := <-h.register: registerClient; HandleWS then starts the pumps
HubRegister(c) ==
    /\ HubAtSelect
    /\ connPc[c] = "registering"
    /\ clients' = RegisterInto(clients, c)
    /\ connPc' = [ connPc EXCEPT ![c] = "live" ]
    /\ rdPc' = [ rdPc EXCEPT ![c] = "run" ]
    /\ wrPc' = [ wrPc EXCEPT ![c] = "run" ]
    /\ UNCHANGED << cancelled, hubPc, hubMsg, hubTodo, hubTarget, id, session, send,
                    sendClosed, rdMsg, once, connOpen, sessVars, histVars, seqVars, hsVars, fifoVars, rxVars, jsVars >>

\* (mutant) the delete empties the map
UnregisterFromAll(cl, client) == { }

\* unregisterClient: the clients map after the delete
UnregisterFrom(cl, client) == cl \ { client }

\* the run-time panics of a channel operation; a panic ends the process
CloseOfClosed == "panic: close of closed channel"
SendOnClosed == "panic: send on closed channel"
Panics == { CloseOfClosed, SendOnClosed }

\* case client := <-h.unregister: unregisterClient. The sender is the pump
\* of c that runs onClose. Client.Close closes the send channel, which
\* panics when the channel is closed already.
HubUnregister(c) ==
    /\ HubAtSelect
    /\ rdPc[c] = "unregister" \/ wrPc[c] = "unregister"
    /\ IF c \in clients /\ sendClosed[c]
       THEN /\ clients' = UnregisterFrom(clients, c)
            /\ hubPc' = CloseOfClosed
            /\ UNCHANGED << sendClosed, rdPc, wrPc >>
       ELSE /\ IF c \in clients
               THEN /\ clients' = UnregisterFrom(clients, c)
                    /\ sendClosed' = [ sendClosed EXCEPT ![c] = TRUE ]
               ELSE UNCHANGED << clients, sendClosed >>
            /\ rdPc' = [ rdPc EXCEPT ![c] = IF @ = "unregister" THEN "closeconn" ELSE @ ]
            /\ wrPc' = [ wrPc EXCEPT ![c] = IF @ = "unregister" THEN "closeconn" ELSE @ ]
            /\ UNCHANGED hubPc
    /\ UNCHANGED << cancelled, hubMsg, hubTodo, hubTarget, connPc, id, session,
                    send, rdMsg, once, connOpen, sessVars, histVars, seqVars, hsVars, fifoVars, rxVars, jsVars >>

\* case msg := <-h.broadcast: the read loop of c is blocked in Hub.Broadcast,
\* which keeps the sender and the payload of the onMessage call
HubBroadcast(c) ==
    /\ HubAtSelect
    /\ rdPc[c] = "deliver"
    /\ hubMsg' = [ Sender |-> c, Payload |-> rdMsg[c].Payload ]
    /\ hubTodo' = clients
    /\ hubPc' = "range"
    /\ rdPc' = [ rdPc EXCEPT ![c] = "run" ]
    /\ rdMsg' = [ rdMsg EXCEPT ![c] = NoRdMsg ]
    /\ evRecipient' = rdMsg[c].RecipientID
    /\ evMembers' = clients
    /\ evEnq' = [ k \in Conns |-> 0 ]
    /\ evSealed' = {}
    /\ UNCHANGED << cancelled, clients, hubTarget, connPc, id, session, send, sendClosed,
                    wrPc, once, connOpen, sessVars, readHist, closeHist, seqVars, hsVars, fifoVars, rxVars, jsVars >>

\* the frame broadcastMessage marshals for a target
OutFrame(t, payload) ==
    [ SessionID |-> 0,
      Content |-> [ key |-> KeyS2C(session[t]), iv |-> Nonce, aad |-> EmptyStr,
                    pt |-> payload ],
      IV |-> Nonce ]

\* a buffered channel: a send appends, a receive takes the oldest element
ChanSend(q, msg) == Append(q, msg)
ChanRecvNewest(q) == q[Len(q)]
ChanRecv(q) == Head(q)
ChanRest(q) == Tail(q)

\* (mutant) Client.Send without its ctx.Done() case
CanGiveUpNever == FALSE

\* Client.Send can take its channel case / its ctx.Done() case
CanEnqueue(t) == Len(send[t]) < SendCap /\ ~sendClosed[t]
CanGiveUp == cancelled

\* Client.Send(t) returns, having enqueued the frame or not, and the range
\* loop goes on with the map entries left
SendReturns(t, enq) ==
    /\ send' = IF enq THEN [ send EXCEPT ![t] = ChanSend(@, OutFrame(t, hubMsg.Payload)) ]
               ELSE send
    /\ evEnq' = IF enq THEN [ evEnq EXCEPT ![t] = @ + 1 ] ELSE evEnq
    /\ hubTarget' = NoConn
    /\ hubPc' = "range"

\* one iteration of `for client := range h.clients`: the sender and the
\* unauthenticated are skipped; for the others the payload is sealed and
\* client.Send is called, which returns at once when one of its select cases
\* is ready and blocks otherwise
HubRange(t) ==
    /\ hubPc = "range"
    /\ t \in hubTodo
    /\ hubTodo' = hubTodo \ { t }
    /\ IF IsSender(t, hubMsg) \/ ~IsAuthenticated(t)
       THEN UNCHANGED << hubPc, hubTarget, send, evEnq, evSealed >>
       ELSE /\ evSealed' = evSealed \cup { t }
            /\ \/ /\ CanEnqueue(t)
                  /\ SendReturns(t, TRUE)
               \/ /\ CanGiveUp
                  /\ SendReturns(t, FALSE)
               \/ /\ ~CanEnqueue(t)
                  /\ ~CanGiveUp
                  /\ hubPc' = "send"
                  /\ hubTarget' = t
                  /\ UNCHANGED << send, evEnq >>
    /\ UNCHANGED << cancelled, clients, hubMsg, connPc, id, session, sendClosed, rdPc,
                    wrPc, rdMsg, once, connOpen, sessVars, readHist, closeHist,
                    evRecipient, evMembers, seqVars, hsVars, fifoVars, rxVars, jsVars >>

\* Client.Send, blocked in its select, is woken by room in the channel or by
\* the cancellation
HubSend ==
    /\ hubPc = "send"
    /\ \/ /\ CanEnqueue(hubTarget)
          /\ SendReturns(hubTarget, TRUE)
       \/ /\ CanGiveUp
          /\ SendReturns(hubTarget, FALSE)
    /\ UNCHANGED << cancelled, clients, hubMsg, hubTodo, connPc, id, session, sendClosed,
                    rdPc, wrPc, rdMsg, once, connOpen, sessVars, readHist, closeHist,
                    evRecipient, evMembers, evSealed, seqVars, hsVars, fifoVars, rxVars, jsVars >>

\* the range loop is over: broadcastMessage returns to Run's select
HubRangeDone ==
    /\ hubPc = "range"
    /\ hubTodo = {}
    /\ hubPc' = "select"
    /\ hubMsg' = NoMsg
    /\ evRecipient' = EmptyStr
    /\ evMembers' = {}
    /\ evEnq' = [ k \in Conns |-> 0 ]
    /\ evSealed' = {}
    /\ UNCHANGED << cancelled, clients, hubTodo, hubTarget, connVars, sessVars, readHist,
                    closeHist, seqVars, hsVars, fifoVars, rxVars, jsVars >>

(***************************************************************************)
(* Client.closeConnection, deferred by both pumps: closeOnce.Do runs       *)
(* onClose (Hub.Unregister, a blocking channel send) and then conn.Close.  *)
(* The first caller of Do runs the function; a later caller returns once   *)
(* the function has returned.                                              *)
(***************************************************************************)
Pumps == { "rd", "wr" }
PumpPc(c, p) == IF p = "rd" THEN rdPc[c] ELSE wrPc[c]

SetPump(c, p, v) ==
    IF p = "rd"
    THEN rdPc' = [ rdPc EXCEPT ![c] = v ] /\ UNCHANGED wrPc
    ELSE wrPc' = [ wrPc EXCEPT ![c] = v ] /\ UNCHANGED rdPc

\* pump p of c returns from its loop and enters closeOnce.Do
CloseConnection(c, p) ==
    IF OnceRuns(c)
    THEN /\ once' = [ once EXCEPT ![c] = "running" ]
         /\ closeCalls' = [ closeCalls EXCEPT ![c] = @ + 1 ]
         /\ SetPump(c, p, "unregister")
    ELSE /\ SetPump(c, p, IF once[c] = "done" THEN "done" ELSE "oncewait")
         /\ UNCHANGED << once, closeCalls >>

\* Do returns to a caller that waited for the function to finish
OnceWaitDone(c, p) ==
    /\ PumpPc(c, p) = "oncewait"
    /\ once[c] = "done"
    /\ SetPump(c, p, "done")
    /\ UNCHANGED << cancelled, hubVars, connPc, id, session, send, sendClosed, rdMsg,
                    once, connOpen, sessVars, histVars, seqVars, hsVars, fifoVars, rxVars, jsVars >>

\* onClose has returned: conn.Close(), and Do returns
CloseConn(c, p) ==
    /\ PumpPc(c, p) = "closeconn"
    /\ connCloses' = [ connCloses EXCEPT ![c] = @ + 1 ]
    /\ connOpen' = [ connOpen EXCEPT ![c] = FALSE ]
    /\ once' = [ once EXCEPT ![c] = "done" ]
    /\ SetPump(c, p, "done")
    /\ UNCHANGED << cancelled, hubVars, connPc, id, session, send, sendClosed, rdMsg,
                    sessVars, readHist, closeCalls, evVars, seqVars, hsVars, fifoVars, rxVars, jsVars >>

(***************************************************************************)
(* Client.ReadPump.                                                        *)
(***************************************************************************)
\* top of the loop: select on ctx.Done() with a default
ReadSelect(c) ==
    /\ rdPc[c] = "run"
    /\ rdDrop' = [ rdDrop EXCEPT ![c] = "none" ]
    /\ rdSeq' = [ rdSeq EXCEPT ![c] = 0 ]
    /\ IF cancelled
       THEN CloseConnection(c, "rd")
       ELSE /\ rdPc' = [ rdPc EXCEPT ![c] = "reading" ]
            /\ UNCHANGED << wrPc, once, closeCalls >>
    /\ UNCHANGED << cancelled, hubVars, connPc, id, session, send, sendClosed,
                    rdMsg, connOpen, sessVars, advanced, opened, deliveredSeqs,
                    dupDelivered, connCloses, evVars, seqVars, hsVars, fifoVars, rxVars, jsVars >>

\* conn.ReadMessage fails (the peer went away, or the websocket was closed)
ReadErr(c) ==
    /\ rdPc[c] = "reading"
    /\ CloseConnection(c, "rd")
    /\ UNCHANGED << cancelled, hubVars, connPc, id, session, send, sendClosed,
                    rdMsg, connOpen, sessVars, readHist, connCloses, evVars, seqVars, hsVars, fifoVars, rxVars, jsVars >>

\* (mutant) the content and iv are looked at after AdvanceRecvSeq
ReadOutcomeSeqFirst(c, f) ==
    LET s == session[c]
        adv == AdvanceRecvSeq(f.SeqNo, recvSeq[s])
    IN  IF ~f.json THEN [ kind |-> "malformed", recv |-> recvSeq[s], pt |-> Fail ]
        ELSE IF f.Content = NoContent \/ f.IV = ""
        THEN [ kind |-> "empty", recv |-> adv.recv, pt |-> Fail ]
        ELSE [ kind |-> "session", recv |-> recvSeq[s], pt |-> Fail ]

\* what ReadPump does with one frame, up to the call of onMessage
ReadOutcome(c, f) ==
    LET s == session[c]
        adv == AdvanceRecvSeq(f.SeqNo, recvSeq[s])
        aad == BuildAAD(f.SenderID, f.RecipientID, f.SeqNo)
        pt == DecryptWithSymmetricAAD(KeyC2S(s), f.Content, f.IV, aad)
    IN  IF ~f.json THEN [ kind |-> "malformed", recv |-> recvSeq[s], pt |-> Fail ]
        ELSE IF f.Content = NoContent \/ f.IV = ""
        THEN [ kind |-> "empty", recv |-> recvSeq[s], pt |-> Fail ]
        ELSE IF ~SessionMatches(f, c)
        THEN [ kind |-> "session", recv |-> recvSeq[s], pt |-> Fail ]
        ELSE IF ~adv.ok
        THEN [ kind |-> "replay", recv |-> adv.recv, pt |-> Fail ]
        ELSE IF pt = Fail
        THEN [ kind |-> "aead", recv |-> adv.recv, pt |-> Fail ]
        ELSE [ kind |-> "deliver", recv |-> adv.recv, pt |-> pt ]

\* (mutant) a dropped frame ends the read loop
AfterDropReturn(kind) == "done"

\* `continue` after a dropped frame: the loop goes back to its select
AfterDrop(kind) == "run"

\* conn.ReadMessage returns frame f; the checks; onMessage blocks in the
\* send on the hub's broadcast channel
ReadMessage(c, f) ==
    /\ rdPc[c] = "reading"
    /\ connOpen[c]
    /\ LET s == session[c]
           r == ReadOutcome(c, f)
       IN  /\ recvSeq' = [ recvSeq EXCEPT ![s] = r.recv ]
           /\ advanced' = IF r.recv # recvSeq[s]
                          THEN advanced \cup { << f.SessionID, s >> } ELSE advanced
           /\ opened' = IF r.kind \in { "aead", "deliver" }
                        THEN opened \cup { << f.SessionID, s >> } ELSE opened
           /\ IF r.kind = "deliver"
              THEN /\ rdPc' = [ rdPc EXCEPT ![c] = "deliver" ]
                   /\ rdMsg' = [ rdMsg EXCEPT ![c] =
                                   [ RecipientID |-> f.RecipientID, Payload |-> r.pt,
                                     frame |-> f ] ]
                   /\ deliveredSeqs' = [ deliveredSeqs EXCEPT ![s] = @ \cup { f.SeqNo } ]
                   /\ dupDelivered' = (dupDelivered \/ f.SeqNo \in deliveredSeqs[s])
              ELSE /\ rdPc' = [ rdPc EXCEPT ![c] = AfterDrop(r.kind) ]
                   /\ UNCHANGED << rdMsg, deliveredSeqs, dupDelivered >>
           /\ rdDrop' = [ rdDrop EXCEPT ![c] = IF r.kind = "deliver" THEN "none" ELSE r.kind ]
           /\ rdSeq' = [ rdSeq EXCEPT ![c] = IF r.kind = "replay" THEN f.SeqNo ELSE 0 ]
    /\ UNCHANGED << cancelled, hubVars, connPc, id, session, send, sendClosed, wrPc,
                    once, connOpen, sendSeq, closeHist, evVars, seqVars, hsVars, fifoVars, rxVars, jsVars >>

(***************************************************************************)
(* Client.WritePump: select on ctx.Done() and the send channel.            *)
(***************************************************************************)
WriteCtxDone(c) ==
    /\ wrPc[c] = "run"
    /\ cancelled
    /\ CloseConnection(c, "wr")
    /\ UNCHANGED << cancelled, hubVars, connPc, id, session, send, sendClosed,
                    rdMsg, connOpen, sessVars, readHist, connCloses, evVars, seqVars, hsVars, fifoVars, rxVars, jsVars >>

\* a frame is received from the channel and written; WriteMessage may fail
WriteFrame(c) ==
    /\ wrPc[c] = "run"
    /\ send[c] # << >>
    /\ send' = [ send EXCEPT ![c] = ChanRest(@) ]
    /\ \/ /\ connOpen[c]
          /\ UNCHANGED << rdPc, wrPc, once, closeCalls >>
       \/ CloseConnection(c, "wr")
    /\ UNCHANGED << cancelled, hubVars, connPc, id, session, sendClosed,
                    rdMsg, connOpen, sessVars, readHist, connCloses, evVars, seqVars, hsVars, fifoVars, rxVars, jsVars >>

\* the channel is closed and drained: ok is false
WriteChanClosed(c) ==
    /\ wrPc[c] = "run"
    /\ send[c] = << >>
    /\ sendClosed[c]
    /\ CloseConnection(c, "wr")
    /\ UNCHANGED << cancelled, hubVars, connPc, id, session, send, sendClosed,
                    rdMsg, connOpen, sessVars, readHist, connCloses, evVars, seqVars, hsVars, fifoVars, rxVars, jsVars >>

Next ==
    \/ \E c \in Conns, i \in ClientIds, s \in Sessions : Connect(c, i, s)
    \/ Cancel
    \/ HubCtxDone
    \/ \E c \in Conns : HubRegister(c)
    \/ \E c \in Conns : HubUnregister(c)
    \/ \E c \in Conns : HubBroadcast(c)
    \/ \E t \in Conns : HubRange(t)
    \/ HubSend
    \/ HubRangeDone
    \/ \E c \in Conns : ReadSelect(c)
    \/ \E c \in Conns : ReadErr(c)
    \/ \E c \in Conns, f \in Frames : ReadMessage(c, f)
    \/ \E c \in Conns : WriteCtxDone(c)
    \/ \E c \in Conns : WriteFrame(c)
    \/ \E c \in Conns : WriteChanClosed(c)
    \/ \E c \in Conns, p \in Pumps : OnceWaitDone(c, p)
    \/ \E c \in Conns, p \in Pumps : CloseConn(c, p)

Spec == Init /\ [][Next]_vars

(***************************************************************************)
(* The earlier revision of the client (part_006:223-349) under the hub of  *)
(* hub.go:124-215: Send does not block, a client has a key once its read   *)
(* loop has seen a frame of a stored session, the read loop alone calls    *)
(* onClose, and broadcastMessage forwards the frame to every client that   *)
(* has a key.                                                              *)
(***************************************************************************)
NbFrames == { MalformedFrame, EmptyContentFrame, ForeignFrame, ZeroSeqFrame }

\* NewClient: symmetricKey is nil
ConnectNb(c) == Connect(c, EmptyStr, NumSessions)

\* ReadPump: unmarshal, the content and iv test, database.GetSession, the
\* first key is kept, onMessage
ReadMessageNb(c, f) ==
    /\ rdPc[c] = "reading"
    /\ connOpen[c]
    /\ IF ~f.json \/ f.Content = NoContent \/ f.IV = "" \/ f.SessionID \notin KeyedSessions
       THEN /\ rdPc' = [ rdPc EXCEPT ![c] = "run" ]
            /\ UNCHANGED << session, rdMsg >>
       ELSE /\ session' = [ session EXCEPT ![c] = IF KeyC2S(@) = NilKey THEN f.SessionID ELSE @ ]
            /\ rdMsg' = [ rdMsg EXCEPT ![c] =
                            [ RecipientID |-> EmptyStr, Payload |-> f.Content.pt, frame |-> f ] ]
            /\ rdPc' = [ rdPc EXCEPT ![c] = "deliver" ]
    /\ UNCHANGED << cancelled, hubVars, connPc, id, send, sendClosed, wrPc, once, connOpen,
                    sessVars, histVars, seqVars, hsVars, fifoVars, rxVars, jsVars >>

\* Client.Send: select { case c.send <- msg: default: c.Close() }; the
\* position of Run after the call
SendNonBlocking(t) ==
    IF sendClosed[t]
    THEN /\ hubPc' = SendOnClosed
         /\ UNCHANGED << send, sendClosed, evEnq >>
    ELSE IF Len(send[t]) < SendCap
    THEN /\ send' = [ send EXCEPT ![t] = ChanSend(@, OutFrame(t, hubMsg.Payload)) ]
         /\ evEnq' = [ evEnq EXCEPT ![t] = @ + 1 ]
         /\ UNCHANGED << hubPc, sendClosed >>
    ELSE /\ sendClosed' = [ sendClosed EXCEPT ![t] = TRUE ]
         /\ UNCHANGED << hubPc, send, evEnq >>

\* one iteration of broadcastMessage's range loop
HubRangeNb(t) ==
    /\ hubPc = "range"
    /\ t \in hubTodo
    /\ hubTodo' = hubTodo \ { t }
    /\ IF ~IsAuthenticated(t)
       THEN UNCHANGED << hubPc, send, sendClosed, evEnq >>
       ELSE SendNonBlocking(t)
    /\ UNCHANGED << cancelled, clients, hubMsg, hubTarget, connPc, id, session, rdPc,
                    wrPc, rdMsg, once, connOpen, sessVars, readHist, closeHist,
                    evRecipient, evMembers, evSealed, seqVars, hsVars, fifoVars, rxVars, jsVars >>

\* WritePump writes the oldest frame of the channel
WriteFrameNb(c) ==
    /\ wrPc[c] = "run"
    /\ send[c] # << >>
    /\ connOpen[c]
    /\ send' = [ send EXCEPT ![c] = ChanRest(@) ]
    /\ UNCHANGED << cancelled, hubVars, connPc, id, session, sendClosed, rdPc, wrPc,
                    rdMsg, once, connOpen, sessVars, histVars, seqVars, hsVars, fifoVars, rxVars, jsVars >>

\* WritePump returns (context done, channel closed and drained, or a write
\* on a closed websocket); its deferred function closes the websocket
WritePumpExitNb(c) ==
    /\ wrPc[c] = "run"
    /\ \/ cancelled
       \/ send[c] = << >> /\ sendClosed[c]
       \/ send[c] # << >> /\ ~connOpen[c]
    /\ wrPc' = [ wrPc EXCEPT ![c] = "done" ]
    /\ connOpen' = [ connOpen EXCEPT ![c] = FALSE ]
    /\ connCloses' = [ connCloses EXCEPT ![c] = @ + 1 ]
    /\ UNCHANGED << cancelled, hubVars, connPc, id, session, send, sendClosed, rdPc,
                    rdMsg, once, sessVars, readHist, closeCalls, evVars, seqVars, hsVars,
                    fifoVars, rxVars, jsVars >>

NextNb ==
    \/ \E c \in Conns : ConnectNb(c)
    \/ Cancel
    \/ HubCtxDone
    \/ \E c \in Conns : HubRegister(c)
    \/ \E c \in Conns : HubUnregister(c)
    \/ \E c \in Conns : HubBroadcast(c)
    \/ \E t \in Conns : HubRangeNb(t)
    \/ HubRangeDone
    \/ \E c \in Conns : ReadSelect(c)
    \/ \E c \in Conns : ReadErr(c)
    \/ \E c \in Conns, f \in NbFrames : ReadMessageNb(c, f)
    \/ \E c \in Conns : WriteFrameNb(c)
    \/ \E c \in Conns : WritePumpExitNb(c)
    \/ \E c \in Conns : CloseConn(c, "rd")

SpecNb == Init /\ [][NextNb]_vars

(***************************************************************************)
(* SpecSeq: goroutines that call NextSeq and AdvanceRecvSeq on one Session *)
(* (session 1) concurrently. NextSeq is one atomic Add; AdvanceRecvSeq is  *)
(* its loop of Load, test and CompareAndSwap, one atomic operation a step. *)
(***************************************************************************)
SeqSession == 1

\* the arguments AdvanceRecvSeq is called with
AdvArgs == 0 .. MaxSeq

CallNextSeq(k) ==
    /\ callPc[k] = "idle"
    /\ callsLeft[k] > 0
    /\ callsLeft' = [ callsLeft EXCEPT ![k] = @ - 1 ]
    /\ callPc' = [ callPc EXCEPT ![k] = "add" ]
    /\ callSeen' = [ callSeen EXCEPT ![k] = returned.next ]
    /\ UNCHANGED << cancelled, hubVars, connVars, hsVars, fifoVars, rxVars, jsVars, sessVars, histVars, callArg, callCur,
                    callRet, returned, callAlone, callWith, advLog >>

\* s.sendSeq.Add(1)
SeqAdd(k) ==
    /\ callPc[k] = "add"
    /\ sendSeq' = [ sendSeq EXCEPT ![SeqSession] = NextSeq(@) ]
    /\ callRet' = [ callRet EXCEPT ![k] = sendSeq'[SeqSession] ]
    /\ callPc' = [ callPc EXCEPT ![k] = "ret" ]
    /\ UNCHANGED << cancelled, hubVars, connVars, hsVars, fifoVars, rxVars, jsVars, recvSeq, histVars, callArg, callCur,
                    callSeen, callsLeft, returned, callAlone, callWith, advLog >>

SeqReturn(k) ==
    /\ callPc[k] = "ret"
    /\ returned' = [ returned EXCEPT !.next = @ \cup { callRet[k] },
                                     !.nextTwice = @ \/ callRet[k] \in returned.next ]
    /\ callPc' = [ callPc EXCEPT ![k] = "idle" ]
    /\ callRet' = [ callRet EXCEPT ![k] = 0 ]
    /\ callSeen' = [ callSeen EXCEPT ![k] = {} ]
    /\ UNCHANGED << cancelled, hubVars, connVars, hsVars, fifoVars, rxVars, jsVars, sessVars, histVars, callArg, callCur,
                    callsLeft, callAlone, callWith, advLog >>

\* caller i is inside AdvanceRecvSeq
InAdvance(i) == callPc[i] \in { "load", "cas" }

\* the call caller i is making: the caller and the calls it has left
CallId(i) == << i, callsLeft[i] >>

\* the record of the call of caller k that returns ok
Finished(k, ok) ==
    [ id |-> CallId(k), seq |-> callArg[k], ok |-> ok, with |-> callWith[k] ]

CallAdvance(k, seq) ==
    /\ callPc[k] = "idle"
    /\ callsLeft[k] > 0
    /\ callsLeft' = [ callsLeft EXCEPT ![k] = @ - 1 ]
    /\ callPc' = [ callPc EXCEPT ![k] = "load" ]
    /\ callArg' = [ callArg EXCEPT ![k] = seq ]
    /\ callAlone' = [ j \in Callers |-> j = k /\ ~\E i \in Callers : InAdvance(i) ]
    /\ callWith' = [ j \in Callers |->
                       IF j = k
                       THEN { CallId(i) : i \in { i \in Callers : InAdvance(i) /\ callArg[i] = seq } }
                       ELSE IF InAdvance(j) /\ callArg[j] = seq
                       THEN callWith[j] \cup { << k, callsLeft[k] - 1 >> }
                       ELSE callWith[j] ]
    /\ UNCHANGED << cancelled, hubVars, connVars, hsVars, fifoVars, rxVars, jsVars, sessVars, histVars, callCur, callRet,
                    callSeen, returned, advLog >>

\* current := s.recvSeq.Load(); if seq <= current { return false }
AdvLoad(k) ==
    /\ callPc[k] = "load"
    /\ LET current == recvSeq[SeqSession]
       IN  IF SeqIsStale(callArg[k], current)
           THEN /\ callPc' = [ callPc EXCEPT ![k] = "idle" ]
                /\ callArg' = [ callArg EXCEPT ![k] = 0 ]
                /\ callCur' = [ callCur EXCEPT ![k] = 0 ]
                /\ advLog' = advLog \cup { Finished(k, FALSE) }
                /\ callWith' = [ callWith EXCEPT ![k] = {} ]
           ELSE /\ callCur' = [ callCur EXCEPT ![k] = current ]
                /\ callPc' = [ callPc EXCEPT ![k] = "cas" ]
                /\ UNCHANGED << callArg, advLog, callWith >>
    /\ callAlone' = [ callAlone EXCEPT ![k] = @ /\ callPc'[k] # "idle" ]
    /\ UNCHANGED << cancelled, hubVars, connVars, hsVars, fifoVars, rxVars, jsVars, sessVars, histVars, callRet, callSeen,
                    callsLeft, returned >>

\* if s.recvSeq.CompareAndSwap(current, seq) { return true }
AdvCAS(k) ==
    /\ callPc[k] = "cas"
    /\ IF recvSeq[SeqSession] = callCur[k]
       THEN /\ recvSeq' = [ recvSeq EXCEPT ![SeqSession] = callArg[k] ]
            /\ returned' = [ returned EXCEPT !.adv = @ \cup { callArg[k] },
                                             !.advTwice = @ \/ callArg[k] \in returned.adv ]
            /\ callPc' = [ callPc EXCEPT ![k] = "idle" ]
            /\ callArg' = [ callArg EXCEPT ![k] = 0 ]
            /\ callCur' = [ callCur EXCEPT ![k] = 0 ]
            /\ advLog' = advLog \cup { Finished(k, TRUE) }
            /\ callWith' = [ callWith EXCEPT ![k] = {} ]
       ELSE /\ callPc' = [ callPc EXCEPT ![k] = "load" ]
            /\ UNCHANGED << recvSeq, returned, callArg, callCur, advLog, callWith >>
    /\ callAlone' = [ callAlone EXCEPT ![k] = @ /\ callPc'[k] # "idle" ]
    /\ UNCHANGED << cancelled, hubVars, connVars, hsVars, fifoVars, rxVars, jsVars, sendSeq, histVars, callRet, callSeen,
                    callsLeft >>

\* the callers of SpecSeq on a session that has handed out 1 .. n
InitSeqAt(n) ==
    /\ InitHub
    /\ InitHs
    /\ InitFifo
    /\ InitRx
    /\ InitJs
    /\ sendSeq = [ s \in Sessions |-> n ]
    /\ callPc = [ k \in Callers |-> "idle" ]
    /\ callArg = [ k \in Callers |-> 0 ]
    /\ callCur = [ k \in Callers |-> 0 ]
    /\ callRet = [ k \in Callers |-> 0 ]
    /\ callSeen = [ k \in Callers |-> {} ]
    /\ callsLeft = [ k \in Callers |-> MaxCalls ]
    /\ returned = [ NoReturns EXCEPT !.next = 1 .. n ]
    /\ callAlone = [ k \in Callers |-> FALSE ]
    /\ callWith = [ k \in Callers |-> {} ]
    /\ advLog = {}

InitSeq == InitSeqAt(0)

NextSeqStep ==
    \/ \E k \in Callers : CallNextSeq(k)
    \/ \E k \in Callers : SeqAdd(k)
    \/ \E k \in Callers : SeqReturn(k)
    \/ \E k \in Callers, seq \in AdvArgs : CallAdvance(k, seq)
    \/ \E k \in Callers : AdvLoad(k)
    \/ \E k \in Callers : AdvCAS(k)

SpecSeq == InitSeq /\ [][NextSeqStep]_vars

\* the same callers on a session two calls away from the largest value of
\* its send counter
InitWrap == InitSeqAt(SeqMod - 2)
SpecWrap == InitWrap /\ [][NextSeqStep]_vars

\* the same callers, each a goroutine that the scheduler runs again and
\* again while it has a step to take
FairSeq ==
    \A k \in Callers :
        /\ WF_vars(AdvLoad(k))
        /\ WF_vars(AdvCAS(k))
        /\ WF_vars(SeqAdd(k))
        /\ WF_vars(SeqReturn(k))
SpecSeqFair == InitSeq /\ [][NextSeqStep]_vars /\ FairSeq

(***************************************************************************)
(* SpecLive: the hub and its connections again, for the progress claims.   *)
(* Every connection is bound to the session that has keys, connection c    *)
(* has its own client id, and the peer sends well-formed broadcast frames. *)
(* Goroutines that can take a step are scheduled (weak fairness). What the *)
(* environment does is not forced: a peer need not connect or send, the    *)
(* context need not be cancelled, and a peer need not read, so that        *)
(* conn.WriteMessage, and with it the write loop, may never get on. A      *)
(* blocked conn.ReadMessage fails once the websocket has been closed.      *)
(***************************************************************************)
LiveId(c) == IF c = 1 THEN IdA ELSE IdB

LiveFrames ==
    { Frame(1, << IdA, EmptyStr >>, q, << IdA, EmptyStr, q >>, Nonce) : q \in Seqs }

ConnectLive(c) == Connect(c, LiveId(c), 1)
ReadLive(c) == \E f \in LiveFrames : ReadMessage(c, f)
ReadErrClosed(c) == ~connOpen[c] /\ ReadErr(c)
\* a write on a websocket that has been closed returns an error at once
WriteErrClosed(c) == ~connOpen[c] /\ WriteFrame(c)

NextLive ==
    \/ \E c \in Conns : ConnectLive(c)
    \/ Cancel
    \/ HubCtxDone
    \/ \E c \in Conns : HubRegister(c)
    \/ \E c \in Conns : HubUnregister(c)
    \/ \E c \in Conns : HubBroadcast(c)
    \/ \E t \in Conns : HubRange(t)
    \/ HubSend
    \/ HubRangeDone
    \/ \E c \in Conns : ReadSelect(c)
    \/ \E c \in Conns : ReadErr(c)
    \/ \E c \in Conns : ReadLive(c)
    \/ \E c \in Conns : WriteCtxDone(c)
    \/ \E c \in Conns : WriteFrame(c)
    \/ \E c \in Conns : WriteChanClosed(c)
    \/ \E c \in Conns, p \in Pumps : OnceWaitDone(c, p)
    \/ \E c \in Conns, p \in Pumps : CloseConn(c, p)

FairLive ==
    /\ WF_vars(HubCtxDone)
    /\ WF_vars(HubSend)
    /\ WF_vars(HubRangeDone)
    /\ \A c \in Conns :
          /\ WF_vars(HubRegister(c))
          /\ WF_vars(HubUnregister(c))
          /\ WF_vars(HubBroadcast(c))
          /\ WF_vars(HubRange(c))
          /\ WF_vars(ReadSelect(c))
          /\ WF_vars(ReadErrClosed(c))
          /\ WF_vars(WriteErrClosed(c))
          /\ WF_vars(WriteCtxDone(c))
          /\ WF_vars(WriteChanClosed(c))
          /\ \A p \in Pumps : WF_vars(OnceWaitDone(c, p)) /\ WF_vars(CloseConn(c, p))

SpecLive == Init /\ [][NextLive]_vars /\ FairLive

(***************************************************************************)
(* The actions of the handshake.                                            *)
(***************************************************************************)
NotHs == << cancelled, hubVars, connVars, sessVars, histVars, seqVars, fifoVars, rxVars, jsVars >>

\* joinChat up to the fetch of performHandshake: the old keys and session id
\* are dropped, a fresh key pair is generated and the request is sent
JoinChat(priv) ==
    /\ cliPc # "waiting"
    /\ hsReq = NoReq
    /\ hsResp = NoResp
    /\ hsLeft > 0
    /\ hsLeft' = hsLeft - 1
    /\ cliPc' = "waiting"
    /\ cliPriv' = priv
    /\ cliPair' = NoPair
    /\ cliSessionId' = 0
    /\ hsReq' = ClientRequest(priv)
    /\ UNCHANGED << store, hsResp, cliGot, socketOpen, NotHs >>

OtherRequest(req) ==
    /\ hsReq = NoReq
    /\ hsResp = NoResp
    /\ hsLeft > 0
    /\ hsLeft' = hsLeft - 1
    /\ hsReq' = req
    /\ UNCHANGED << store, hsResp, cliPc, cliPriv, cliGot, cliPair, cliSessionId, socketOpen,
                    NotHs >>

\* the session table after a run of the handler that returned at step
\* failure: CreateSession precedes the signing of the payload
StoreAfter(failure, serverPriv, saltBytes) ==
    LET salt == Base64Encode(saltBytes)
        sharedSecret == DeriveSharedSecret(serverPriv, hsReq.Jwk)
        symmetricKey == DeriveSymmetricKey(sharedSecret, Base64Decode(salt))
    IN  IF Inserted(failure) THEN CreateSession(store, salt, symmetricKey) ELSE store

\* the response written: payload, signature and session id on success, the
\* status and an error message otherwise
\* (mutant) the payload is serialized a second time for the response
ResponseReencoded(status, failure, serverPriv, saltBytes, sessionId) ==
    LET payloadBytes == [ serverPublicKey |-> Pub(serverPriv), salt |-> Base64Encode(saltBytes) ]
        again == [ salt |-> Base64Encode(saltBytes), serverPublicKey |-> << "pub", serverPriv, "" >> ]
    IN  IF failure = "none"
        THEN [ To |-> hsReq.From, Status |-> 200, Step |-> failure,
               payload |-> Base64Encode(again),
               signature |-> Base64Encode(SignPayload(payloadBytes)),
               sessionId |-> sessionId ]
        ELSE [ NoResp EXCEPT !.To = hsReq.From, !.Status = status, !.Step = failure ]

Response(status, failure, serverPriv, saltBytes, sessionId) ==
    LET payloadBytes == [ serverPublicKey |-> Pub(serverPriv), salt |-> Base64Encode(saltBytes) ]
    IN  IF failure = "none"
        THEN [ To |-> hsReq.From, Status |-> 200, Step |-> failure,
               payload |-> Base64Encode(payloadBytes),
               signature |-> Base64Encode(SignPayload(payloadBytes)),
               sessionId |-> sessionId ]
        ELSE [ NoResp EXCEPT !.To = hsReq.From, !.Status = status, !.Step = failure ]

KeyExchangeHandler(fail, serverPriv, saltBytes) ==
    /\ hsReq # NoReq
    /\ LET failure == FirstFailure(hsReq, fail)
       IN  /\ store' = StoreAfter(failure, serverPriv, saltBytes)
           /\ hsResp' = Response(KeyExchangeHandlerStatus(failure), failure, serverPriv,
                                 saltBytes, Len(store'))
    /\ hsReq' = NoReq
    /\ UNCHANGED << hsLeft, cliPc, cliPriv, cliGot, cliPair, cliSessionId, socketOpen, NotHs >>

HandleKeyExchange(fail, serverPriv, saltBytes) ==
    /\ hsReq # NoReq
    /\ LET failure == FirstFailure(hsReq, fail)
       IN  /\ store' = StoreAfter(failure, serverPriv, saltBytes)
           /\ hsResp' = Response(HandleKeyExchangeStatus(failure), failure, serverPriv,
                                 saltBytes, Len(store'))
    /\ hsReq' = NoReq
    /\ UNCHANGED << hsLeft, cliPc, cliPriv, cliGot, cliPair, cliSessionId, socketOpen, NotHs >>

\* the network between server and browser alters the payload or the
\* signature of a response
Tampered(resp) ==
    LET payloadBytes == Base64Decode(resp.payload)
    IN  { [ resp EXCEPT !.payload =
                Base64Encode([ payloadBytes EXCEPT !.serverPublicKey = Pub("evil") ]) ],
          [ resp EXCEPT !.payload =
                Base64Encode([ payloadBytes EXCEPT !.salt = Base64Encode("evil") ]) ],
          [ resp EXCEPT !.signature =
                Base64Encode(<< "rs256", "evil.pem", payloadBytes >>) ] }

Tamper ==
    /\ hsResp.To = "client"
    /\ hsResp.Status = 200
    /\ Base64Decode(hsResp.signature) = SignPayload(Base64Decode(hsResp.payload))
    /\ hsResp' \in Tampered(hsResp)
    /\ UNCHANGED << store, hsReq, hsLeft, cliPc, cliPriv, cliGot, cliPair, cliSessionId,
                    socketOpen, NotHs >>

\* performHandshake from the arrival of the response, and the rest of
\* joinChat: a response that is not ok, or whose signature does not verify
\* over the payload bytes, throws; otherwise the keys are derived and
\* installed and the websocket is created
PerformHandshake ==
    /\ cliPc = "waiting"
    /\ hsResp.To = "client"
    /\ cliGot' = hsResp
    /\ hsResp' = NoResp
    /\ IF /\ hsResp.Status = 200
          /\ verifyServerSignature(Base64Decode(hsResp.signature), Base64Decode(hsResp.payload))
       THEN LET payload == Base64Decode(hsResp.payload)
                sharedSecret == DeriveSharedSecret(cliPriv, payload.serverPublicKey)
            IN  /\ cliPair' = deriveSessionKeys(sharedSecret, payload.salt)
                /\ cliSessionId' = hsResp.sessionId
                /\ socketOpen' = TRUE
                /\ cliPc' = "joined"
       ELSE /\ cliPc' = "aborted"
            /\ UNCHANGED << cliPair, cliSessionId, socketOpen >>
    /\ UNCHANGED << store, hsReq, hsLeft, cliPriv, NotHs >>

\* the response to another peer's request leaves the model
OtherResponse ==
    /\ hsResp.To = "other"
    /\ hsResp' = NoResp
    /\ UNCHANGED << store, hsReq, hsLeft, cliPc, cliPriv, cliGot, cliPair, cliSessionId,
                    socketOpen, NotHs >>

NextHs ==
    \/ \E priv \in ClientPrivs : JoinChat(priv)
    \/ \E req \in OtherRequests : OtherRequest(req)
    \/ \E fail \in FailPoints, serverPriv \in ServerPrivs, saltBytes \in Salts :
          KeyExchangeHandler(fail, serverPriv, saltBytes)
    \/ \E fail \in FailPoints, serverPriv \in ServerPrivs, saltBytes \in Salts :
          HandleKeyExchange(fail, serverPriv, saltBytes)
    \/ Tamper
    \/ PerformHandshake
    \/ OtherResponse

SpecHs == Init /\ [][NextHs]_vars

(***************************************************************************)
(* The outbound queue of a connection on its own: the hub goroutine calls  *)
(* Client.Send and Client.Close, WritePump receives from the channel and   *)
(* writes to the websocket.  Frames are numbered by the Send call that     *)
(* produced them so that their order can be followed.                      *)
(***************************************************************************)
QueueCap == 2
MaxFrames == 3

NotFifo == << hubVars, connVars, sessVars, histVars, seqVars, hsVars, rxVars, jsVars >>

\* Client.Send: select { case <-ctx.Done(): return; case c.send <- msg: }
ClientSend(c) ==
    /\ fifoCalls[c] < MaxFrames
    /\ ~fifoClosed[c]
    /\ fifoCalls' = [ fifoCalls EXCEPT ![c] = @ + 1 ]
    /\ \/ /\ Len(fifoSend[c]) < QueueCap
          /\ fifoSend' = [ fifoSend EXCEPT ![c] = ChanSend(@, fifoCalls'[c]) ]
          /\ fifoEnqueued' = [ fifoEnqueued EXCEPT ![c] = Append(@, fifoCalls'[c]) ]
       \/ /\ cancelled
          /\ UNCHANGED << fifoSend, fifoEnqueued >>
    /\ UNCHANGED << cancelled, fifoWritten, fifoClosed, fifoPc, NotFifo >>

\* Client.Close: close(c.send)
ClientClose(c) ==
    /\ ~fifoClosed[c]
    /\ fifoClosed' = [ fifoClosed EXCEPT ![c] = TRUE ]
    /\ UNCHANGED << cancelled, fifoSend, fifoEnqueued, fifoWritten, fifoCalls, fifoPc, NotFifo >>

\* WritePump: case <-c.ctx.Done(): return
WritePumpCtxDone(c) ==
    /\ fifoPc[c] = "run"
    /\ cancelled
    /\ fifoPc' = [ fifoPc EXCEPT ![c] = "done" ]
    /\ UNCHANGED << cancelled, fifoSend, fifoEnqueued, fifoWritten, fifoCalls, fifoClosed,
                    NotFifo >>

\* WritePump: case message, ok := <-c.send with ok false
WritePumpClosed(c) ==
    /\ fifoPc[c] = "run"
    /\ fifoSend[c] = << >>
    /\ fifoClosed[c]
    /\ fifoPc' = [ fifoPc EXCEPT ![c] = "done" ]
    /\ UNCHANGED << cancelled, fifoSend, fifoEnqueued, fifoWritten, fifoCalls, fifoClosed,
                    NotFifo >>

\* WritePump: a message is received and written; a write error ends the pump
WritePumpWrite(c) ==
    /\ fifoPc[c] = "run"
    /\ fifoSend[c] # << >>
    /\ fifoSend' = [ fifoSend EXCEPT ![c] = ChanRest(@) ]
    /\ \/ /\ fifoWritten' = [ fifoWritten EXCEPT ![c] = Append(@, ChanRecv(fifoSend[c])) ]
          /\ UNCHANGED fifoPc
       \/ /\ fifoPc' = [ fifoPc EXCEPT ![c] = "done" ]
          /\ UNCHANGED fifoWritten
    /\ UNCHANGED << cancelled, fifoEnqueued, fifoCalls, fifoClosed, NotFifo >>

NextFifo ==
    \/ Cancel
    \/ \E c \in Queues : ClientSend(c)
    \/ \E c \in Queues : ClientClose(c)
    \/ \E c \in Queues : WritePumpCtxDone(c)
    \/ \E c \in Queues : WritePumpClosed(c)
    \/ \E c \in Queues : WritePumpWrite(c)

SpecFifo == Init /\ [][NextFifo]_vars

(***************************************************************************)
(* The browser client's socket.onmessage, with the session keys installed. *)
(***************************************************************************)
\* the frames that can arrive: `shown` says whether the frame has content
\* and iv and passes the recipient filter; seqNo is a number or is missing
RxFrames ==
    { [ shown |-> b, seqNo |-> q ] :
        b \in BOOLEAN, q \in { JsNum(n) : n \in 0 .. MaxSeq } \cup { JsUndefined } }

NotRx == << cancelled, hubVars, connVars, sessVars, histVars, seqVars, hsVars, fifoVars, jsVars >>

\* the test `seq < recvSeq`
RxStale(seq, recv) == JsLess(seq, recv)

\* socket.onmessage: frames without content or iv and frames for another
\* conversation return early; a frame with seq < recvSeq is rejected; any
\* other sets recvSeq = seq + 1 and is decrypted and displayed
OnMessage(f) ==
    /\ rxLeft > 0
    /\ rxLeft' = rxLeft - 1
    /\ IF ~f.shown \/ RxStale(f.seqNo, rxRecvSeq)
       THEN UNCHANGED << rxRecvSeq, rxAccepted >>
       ELSE /\ rxRecvSeq' = JsPlusOne(f.seqNo)
            /\ rxAccepted' = Append(rxAccepted, f.seqNo)
    /\ UNCHANGED NotRx

NextRx == \E f \in RxFrames : OnMessage(f)

SpecRx == Init /\ [][NextRx]_vars

(***************************************************************************)
(* joinChat: the part before `await performHandshake()` and the part after *)
(* it each run without interruption; calls overlap at the await.           *)
(***************************************************************************)
NotJs == << cancelled, hubVars, connVars, sessVars, histVars, seqVars, hsVars, fifoVars, rxVars >>
sendVars == << cliSendSeq, encrypting, wire, srvRecvSeq, srvRejected >>
joinVars == << currentHandshakeId, myHandshakeId, joinPc, installed, currentSocket,
               socketsOpened >>

\* (mutant) joinChat without its race condition check
IsCurrentAlways(j) == TRUE

\* the race condition check: myHandshakeId === currentHandshakeId
IsCurrent(j) == myHandshakeId[j] = currentHandshakeId

\* the state is reset, the handshake id is taken, performHandshake is called
JoinStart(j) ==
    /\ joinPc[j] = "idle"
    /\ \A i \in Joins : i < j => joinPc[i] # "idle"
    /\ installed' = NoKeys
    /\ cliSendSeq' = 1
    /\ currentHandshakeId' = currentHandshakeId + 1
    /\ myHandshakeId' = [ myHandshakeId EXCEPT ![j] = currentHandshakeId + 1 ]
    /\ joinPc' = [ joinPc EXCEPT ![j] = "await" ]
    /\ UNCHANGED << currentSocket, socketsOpened, encrypting, wire, srvRecvSeq,
                    srvRejected, NotJs >>

\* performHandshake throws: the catch block returns
HandshakeFails(j) ==
    /\ joinPc[j] = "await"
    /\ joinPc' = [ joinPc EXCEPT ![j] = "failed" ]
    /\ UNCHANGED << currentHandshakeId, myHandshakeId, installed, currentSocket,
                    socketsOpened, sendVars, NotJs >>

\* performHandshake resolves: the check, then sessionId and the keys are
\* written, the existing socket is closed and a new one is opened
HandshakeResolves(j) ==
    /\ joinPc[j] = "await"
    /\ IF IsCurrent(j)
       THEN /\ installed' = HandshakeResult(myHandshakeId[j])
            /\ currentSocket' = myHandshakeId[j]
            /\ socketsOpened' = socketsOpened \cup { myHandshakeId[j] }
            /\ joinPc' = [ joinPc EXCEPT ![j] = "joined" ]
       ELSE /\ joinPc' = [ joinPc EXCEPT ![j] = "aborted" ]
            /\ UNCHANGED << installed, currentSocket, socketsOpened >>
    /\ UNCHANGED << currentHandshakeId, myHandshakeId, sendVars, NotJs >>

NextJoin ==
    \/ \E j \in Joins : JoinStart(j)
    \/ \E j \in Joins : HandshakeFails(j)
    \/ \E j \in Joins : HandshakeResolves(j)

SpecJoin == Init /\ [][NextJoin]_vars

(***************************************************************************)
(* sendMessage: the part up to `await encryptWithAesGcm(...)` takes the    *)
(* sequence number and builds the AAD; the part after it builds the frame  *)
(* and sends it. The server reads the socket in order.                     *)
(***************************************************************************)
Username == IdA
Recipients == { EmptyStr, IdB }

\* const seq = sendSeq++; const aad = buildAad(username, recipient, seq)
SendMessage(recipient) ==
    /\ currentSocket # NoSocket
    /\ installed.keyC2S # "null"
    /\ cliSendSeq <= MaxSends
    /\ cliSendSeq' = cliSendSeq + 1
    /\ encrypting' = encrypting \cup
          { [ seq |-> cliSendSeq, recipient |-> recipient,
              aad |-> << Username, recipient, cliSendSeq >> ] }
    /\ UNCHANGED << wire, srvRecvSeq, srvRejected, joinVars, NotJs >>

\* the frame sendMessage builds once the ciphertext is there
MessageFrame(m) ==
    [ sessionId |-> installed.sessionId, recipientId |-> m.recipient,
      senderId |-> Username, seqNo |-> m.seq, aad |-> m.aad ]

\* the call that took seq and is waiting for its ciphertext
Pending(seq) == { m \in encrypting : m.seq = seq }

\* the promise of a pending encryption resolves: currentSocket.send(frame)
EncryptResolves(seq) ==
    /\ Pending(seq) # {}
    /\ encrypting' = encrypting \ Pending(seq)
    /\ wire' = Append(wire, MessageFrame(CHOOSE m \in Pending(seq) : TRUE))
    /\ UNCHANGED << cliSendSeq, srvRecvSeq, srvRejected, joinVars, NotJs >>

\* the promise is rejected: the catch block logs and nothing is sent
EncryptRejects(seq) ==
    /\ Pending(seq) # {}
    /\ encrypting' = encrypting \ Pending(seq)
    /\ UNCHANGED << cliSendSeq, wire, srvRecvSeq, srvRejected, joinVars, NotJs >>

\* the server's read loop takes the oldest frame on the socket and calls
\* AdvanceRecvSeq with its seqNo
ServerReads ==
    /\ wire # << >>
    /\ LET f == Head(wire)
           adv == AdvanceRecvSeq(f.seqNo, srvRecvSeq)
       IN  /\ srvRecvSeq' = adv.recv
           /\ srvRejected' = IF adv.ok THEN srvRejected ELSE srvRejected \cup { f.seqNo }
    /\ wire' = Tail(wire)
    /\ UNCHANGED << cliSendSeq, encrypting, joinVars, NotJs >>

NextSend ==
    \/ \E r \in Recipients : SendMessage(r)
    \/ \E seq \in 1 .. MaxSends : EncryptResolves(seq)
    \/ \E seq \in 1 .. MaxSends : EncryptRejects(seq)
    \/ ServerReads

\* a page that has joined once, and a server that has read nothing from it
InitSession == InitServer /\ InitJoined
SpecSend == InitSession /\ [][NextSend]_vars

(***************************************************************************)
(* C1. On one session, under every interleaving of concurrent callers, the *)
(* values NextSeq returns are pairwise distinct, each is greater than      *)
(* every value returned by a call that had completed before the call       *)
(* began, and the first value handed out is 1: the values obtained so far  *)
(* are exactly 1 .. send_seq, each by one call.                            *)
(***************************************************************************)
C1_MonotonicSend ==
    LET pending == { k \in Callers : callPc[k] = "ret" }
    IN  /\ ~returned.nextTwice
        /\ \A k \in pending :
              /\ callRet[k] \notin returned.next
              /\ \A v \in callSeen[k] : callRet[k] > v
        /\ \A k1, k2 \in pending : k1 # k2 => callRet[k1] # callRet[k2]
        /\ returned.next \cup { callRet[k] : k \in pending } = 1 .. sendSeq[SeqSession]

\* two calls overlap and return against the order of their Adds: the call
\* that obtained 1 has not returned yet, the call that obtained 2 has
C1_Witness ==
    \E k \in Callers :
        /\ callPc[k] = "ret"
        /\ callRet[k] = 1
        /\ 2 \in returned.next

(***************************************************************************)
(* Read loop claims.                                                       *)
(***************************************************************************)
\* the read loop of c hands a frame to onMessage in this step
Delivers(c) == rdPc[c] = "reading" /\ rdPc'[c] = "deliver"

\* C2: a frame whose seq_no is not above recv_seq of the connection's
\* session when the read loop processes it is not handed to onMessage, and
\* no seq_no is delivered twice on one session.
C2_NoReplay ==
    /\ [][ \A c \in Conns :
             Delivers(c) => rdMsg'[c].frame.SeqNo > recvSeq[session[c]] ]_vars
    /\ [](~dupDelivered)

\* a connection has dropped a replay on a session that has delivered a frame
C2_Witness ==
    \E c \in Conns : rdDrop[c] = "replay" /\ deliveredSeqs[session[c]] # {}

\* C3: a frame presented with a (sender_id, recipient_id, seq_no) other than
\* the triple its ciphertext was sealed under is not handed to onMessage.
C3_AADBinding ==
    \A c \in Conns :
        rdPc[c] = "deliver" =>
            rdMsg[c].frame.Content.bound =
                << rdMsg[c].frame.SenderID, rdMsg[c].frame.RecipientID,
                   rdMsg[c].frame.SeqNo >>

\* C4: a frame whose session_id is not the session id of its connection is
\* never AEAD-opened, never handed to onMessage and never advances recv_seq.
C4_SessionIsolation ==
    /\ [](\A p \in opened \cup advanced : p[1] = p[2])
    /\ [](\A c \in Conns :
            rdPc[c] = "deliver" => rdMsg[c].frame.SessionID = session[c])
    /\ [][ \A c \in Conns :
             (rdPc[c] = "reading" /\ rdDrop'[c] = "session")
             => (recvSeq' = recvSeq /\ rdPc'[c] = "run") ]_vars

\* a connection with session keys has dropped a frame that names another
\* session
C4_Witness ==
    \E c \in Conns : rdDrop[c] = "session" /\ KeyC2S(session[c]) # NilKey


(***************************************************************************)
(* Hub claims. A dispatch is in progress while Run is inside               *)
(* broadcastMessage; it is complete when the range loop has no entry left. *)
(***************************************************************************)
Dispatching == hubPc \in { "range", "send" }
DispatchDone == hubPc = "range" /\ hubTodo = {}

\* C5: while the hub dispatches an event originated by connection C it
\* neither seals a frame for C nor enqueues one on C's queue.
C5_EchoSuppression ==
    Dispatching =>
        /\ hubMsg.Sender \notin evSealed
        /\ evEnq[hubMsg.Sender] = 0
        /\ hubTarget # hubMsg.Sender

\* a dispatch whose sender was in the map has completed and has enqueued a
\* frame on another connection
C5_Witness ==
    /\ DispatchDone
    /\ hubMsg.Sender \in evMembers
    /\ \E t \in Conns : evEnq[t] = 1

\* C6: closeConnection's function (onClose, then conn.Close) runs exactly
\* once per connection, however the two pumps leave their loops: never
\* twice, and once as soon as a pump has left its loop.
C6_CloseOnce ==
    \A c \in Conns :
        /\ closeCalls[c] <= 1
        /\ connCloses[c] <= 1
        /\ (rdPc[c] \in { "unregister", "closeconn", "oncewait", "done" }
              \/ wrPc[c] \in { "unregister", "closeconn", "oncewait", "done" })
           => closeCalls[c] = 1
        /\ (rdPc[c] = "done" \/ wrPc[c] = "done")
           => (closeCalls[c] = 1 /\ connCloses[c] = 1)

\* both pumps of a connection are inside closeOnce.Do at once, after a
\* cancellation: the write loop runs the function, the read loop waits
C6_Witness ==
    \E c \in Conns :
        /\ cancelled
        /\ wrPc[c] \in { "unregister", "closeconn" }
        /\ rdPc[c] = "oncewait"

\* whether the session of t holds both direction keys
HasKeys(t) == KeyC2S(session[t]) # NilKey /\ KeyS2C(session[t]) # NilKey

C8_UnicastOnlyRecipient ==
    (DispatchDone /\ evRecipient # EmptyStr) =>
        /\ Cardinality({ t \in Conns : evEnq[t] > 0 }) <= 1
        /\ \A t \in Conns : evEnq[t] > 0 => (t \in evMembers /\ id[t] = evRecipient)

\* C9: no two registered connections have the same client id.
C9_OnePerClientId ==
    \A c1, c2 \in clients : c1 # c2 => id[c1] # id[c2]

\* C10: the hub never waits in Client.Send on a target whose queue is full.
C10_NoBlockOnFullQueue ==
    ~(hubPc = "send" /\ Len(send[hubTarget]) >= SendCap)

(***************************************************************************)
(* Progress claims (SpecLive).                                             *)
(***************************************************************************)
\* C11: without cancellation the hub always comes back to its select, so a
\* frame handed to Hub.Broadcast is taken and dispatched and a call of
\* Hub.Register or Hub.Unregister returns, whatever a consumer does with
\* its queue.
C11_HubNeverStalls ==
    /\ ~cancelled ~> (hubPc = "select" \/ cancelled)
    /\ \A c \in Conns :
          /\ (rdPc[c] = "deliver" /\ ~cancelled) ~> (rdPc[c] # "deliver" \/ cancelled)
          /\ (connPc[c] = "registering" /\ ~cancelled)
                ~> (connPc[c] # "registering" \/ cancelled)
          /\ ((rdPc[c] = "unregister" \/ wrPc[c] = "unregister") /\ ~cancelled)
                ~> ((rdPc[c] # "unregister" /\ wrPc[c] # "unregister") \/ cancelled)

\* C12: once the context is cancelled, the hub loop and both loops of every
\* connection whose pumps were started end, and its websocket is closed; no
\* loop stays in a send to the hub or inside closeOnce.Do.
C12_ShutdownTerminates ==
    cancelled ~>
        /\ hubPc = "exited"
        /\ \A c \in Conns :
              connPc[c] = "live" => (rdPc[c] = "done" /\ wrPc[c] = "done" /\ ~connOpen[c])

(***************************************************************************)
(* Further read loop and session claims.                                   *)
(***************************************************************************)
\* C13: recv_seq of a session changes only in a step in which a read loop
\* bound to that session hands a frame to onMessage; a step that drops a
\* frame leaves it as it was.
C13_RecvSeqOnlyOnDelivery ==
    [][ \A s \in Sessions :
          recvSeq'[s] # recvSeq[s] => \E c \in Conns : session[c] = s /\ Delivers(c) ]_vars

\* C14: a call of AdvanceRecvSeq(seq) that overlaps no other call of it, on
\* a session whose watermark is w, returns true and stores seq when seq > w,
\* and returns false and leaves w when seq <= w; recv_seq starts at 0, so
\* seq 0 is never accepted.
C14_AdvanceRecvSeq ==
    /\ [][ \A k \in Callers :
             LET w == recvSeq[SeqSession]
                 seq == callArg[k]
             IN  /\ (callPc[k] = "load" /\ callPc'[k] = "idle")
                    => (seq <= w /\ recvSeq' = recvSeq /\ returned'.adv = returned.adv)
                 /\ (callPc[k] = "load" /\ callPc'[k] = "cas") => seq > w
                 /\ (callPc[k] = "cas" /\ callAlone[k] /\ callPc'[k] # "cas")
                    => /\ seq > w
                       /\ callPc'[k] = "idle"
                       /\ recvSeq'[SeqSession] = seq
                       /\ seq \in returned'.adv ]_vars
    /\ [](0 \notin returned.adv)
    /\ [](\A k \in Callers : (callPc[k] = "cas" /\ callAlone[k])
                               => callCur[k] = recvSeq[SeqSession])

\* a call that overlaps no other is about to store a seq above a watermark
\* an earlier call has raised
C14_Witness ==
    \E k \in Callers :
        /\ callPc[k] = "cas"
        /\ callAlone[k]
        /\ recvSeq[SeqSession] > 0

\* a step of either handler: the request in flight is answered
HandlerAnswers == hsReq # NoReq /\ hsReq' = NoReq

(***************************************************************************)
(* C15: whenever the handshake endpoint answers a request with an error    *)
(* (any status other than 200), the session store is the same as before    *)
(* the request.                                                            *)
(***************************************************************************)
C15_ErrorCreatesNoSession ==
    [][ (HandlerAnswers /\ hsResp'.Status # 200) => store' = store ]_vars

\* the status the handshake contract assigns to a return at each step
ContractStatus(step) ==
    CASE step = "none" -> 200
      [] step = "method" -> 405
      [] step \in { "json", "unwrap", "convert", "secret" } -> 400
      [] step \in { "keygen", "jwk", "salt", "saltdecode", "derive", "insert", "sign" } -> 500

(***************************************************************************)
(* C16: the endpoint answers a non-POST request with 405, malformed JSON,  *)
(* an unwrap failure or an invalid client key with 400, and every internal *)
(* failure (server key generation, salt generation, key derivation, store  *)
(* insert, signing) with 500.                                              *)
(***************************************************************************)
C16_StatusCodes ==
    [][ HandlerAnswers => hsResp'.Status = ContractStatus(hsResp'.Step) ]_vars

(***************************************************************************)
(* C17: after a successful handshake whose response the client verified,   *)
(* the pair the client derived equals the pair stored in the session       *)
(* record named by the returned sessionId, and its two keys differ.        *)
(***************************************************************************)
C17_ClientPairIsStoredPair ==
    (cliPc = "joined" /\ cliSessionId \in 1 .. Len(store)) =>
        /\ cliPair = StoredPair(cliSessionId)
        /\ cliPair[1] # cliPair[2]

\* the response the client received is one the server signed, unaltered
Unaltered(resp) == Base64Decode(resp.signature) = SignPayload(Base64Decode(resp.payload))

(***************************************************************************)
(* C18: the client installs keys and a session id and opens the websocket  *)
(* only in the step in which the signature verified over the payload bytes *)
(* it received; a response whose payload or signature was altered in       *)
(* transit aborts the handshake with no key, no session id and no new      *)
(* websocket.                                                              *)
(***************************************************************************)
C18_VerifyBeforeTransport ==
    /\ [][ (cliPair' # cliPair /\ cliPair' # NoPair) \/ (cliSessionId' # cliSessionId /\ cliSessionId' # 0)
           \/ (socketOpen' /\ ~socketOpen)
              => /\ cliPc = "waiting"
                 /\ hsResp.Status = 200
                 /\ Unaltered(hsResp)
                 /\ cliGot' = hsResp ]_vars
    /\ [][ (cliPc = "waiting" /\ hsResp.To = "client" /\ hsResp' = NoResp /\ ~Unaltered(hsResp))
              => /\ cliPc' = "aborted"
                 /\ cliPair' = NoPair
                 /\ cliSessionId' = 0
                 /\ socketOpen' = socketOpen ]_vars
    /\ []((cliPair # NoPair \/ cliSessionId # 0) => (cliPc = "joined" /\ Unaltered(cliGot)))

C18_Witness ==
    /\ cliPc = "aborted"
    /\ cliGot.Status = 200
    /\ ~Unaltered(cliGot)
    /\ cliPair = NoPair
    /\ cliSessionId = 0
    /\ ~socketOpen

IsPrefix(s, q) == Len(s) <= Len(q) /\ SubSeq(q, 1, Len(s)) = s

(***************************************************************************)
(* C19: for every connection, frames are written to the transport in       *)
(* exactly the order in which they were enqueued on its outbound queue:    *)
(* what has been written is a prefix of what was enqueued (no reordering,  *)
(* no duplicate, nothing written before an earlier-enqueued frame), and    *)
(* each write is of the oldest frame still queued.                         *)
(***************************************************************************)
C19_WriteOrder ==
    /\ [](\A c \in Queues : IsPrefix(fifoWritten[c], fifoEnqueued[c]))
    /\ [][ \A c \in Queues : fifoWritten'[c] # fifoWritten[c] =>
              /\ fifoSend[c] # << >>
              /\ fifoWritten'[c] = Append(fifoWritten[c], fifoEnqueued[c][Len(fifoWritten[c]) + 1])
              /\ fifoEnqueued[c] = fifoWritten[c] \o fifoSend[c] ]_vars

C19_Witness ==
    \E c \in Queues : Len(fifoWritten[c]) >= 2 /\ Len(fifoSend[c]) >= 1

\* the hub enqueues a frame on connection t in this step
Enqueues(t) == Len(send'[t]) > Len(send[t])

(***************************************************************************)
(* C20: every frame the hub enqueues for a target T carries T's session id,*)
(* the originating connection's sender_id, the event's recipient_id and a  *)
(* seq_no freshly obtained from NextSeq of T's session, and its ciphertext *)
(* is sealed under T's K_s2c with the AAD built from exactly the           *)
(* sender_id, recipient_id and seq_no of that frame.                       *)
(***************************************************************************)
C20_OutgoingFrame ==
    [][ \A t \in Conns : Enqueues(t) =>
          LET f == send'[t][Len(send'[t])]
          IN  /\ f.SessionID = session[t]
              /\ { "SenderID", "RecipientID", "SeqNo" } \subseteq DOMAIN f
              /\ f.SenderID = id[hubMsg.Sender]
              /\ f.RecipientID = evRecipient
              /\ sendSeq'[session[t]] = NextSeq(sendSeq[session[t]])
              /\ f.SeqNo = sendSeq'[session[t]]
              /\ f.Content.key = KeyS2C(session[t])
              /\ f.Content.aad = BuildAAD(f.SenderID, f.RecipientID, f.SeqNo) ]_vars

(***************************************************************************)
(* C21: send_seq never wraps: NextSeq returns neither 0 nor a value it has *)
(* returned before, also when the counter is at its largest value.         *)
(***************************************************************************)
C21_NoWrap ==
    /\ ~returned.nextTwice
    /\ \A k \in Callers :
          callPc[k] = "ret" => (callRet[k] # 0 /\ callRet[k] \notin returned.next)

\* connection c is opened in this step on a session that a connection
\* closed by now was bound to
Reconnects(c) ==
    /\ connPc[c] = "new"
    /\ connPc'[c] # "new"
    /\ \E o \in Conns \ { c } :
          connPc[o] # "new" /\ ~connOpen[o] /\ session[o] = session'[c]

Failed(c) == rdPc[c] = "unregister" \/ wrPc[c] = "unregister"

\* c is out of the hub's map, its queue and its websocket are closed and
\* both of its loops have returned
CleanedUp(c) ==
    /\ c \notin clients
    /\ sendClosed[c]
    /\ ~connOpen[c]
    /\ rdPc[c] = "done"
    /\ wrPc[c] = "done"

(***************************************************************************)
(* C23: when a connection's read or write fails, then without cancellation *)
(* and under fair scheduling it is eventually removed from the hub's map,  *)
(* its outbound queue and its websocket are eventually closed and both of  *)
(* its loops eventually terminate, whatever the hub is doing.              *)
(***************************************************************************)
C23_FailureCleansUp ==
    \A c \in Conns : (Failed(c) /\ ~cancelled) ~> (CleanedUp(c) \/ cancelled)

(***************************************************************************)
(* C24: the hub loop returns only after the cancellation signal has fired  *)
(* (it leaves from its select, and no register, unregister or dispatch     *)
(* event makes it exit), and once the signal has fired the hub loop        *)
(* eventually returns, also when it is in the middle of a dispatch.        *)
(***************************************************************************)
C24_HubExitsOnCancel ==
    /\ [](hubPc = "exited" => cancelled)
    /\ [][ (hubPc # "exited" /\ hubPc' = "exited") => (cancelled /\ hubPc = "select") ]_vars
    /\ cancelled ~> (hubPc = "exited")

\* the signal has fired while the hub is blocked in Client.Send
C24_Witness == cancelled /\ hubPc = "send"

(***************************************************************************)
(* C25: deregistration of a registered connection removes it from the      *)
(* hub's map and closes its outbound queue, and leaves unchanged the       *)
(* persistent session records, the sessions' send_seq and recv_seq, and    *)
(* the map entries and queues of every other connection.                   *)
(***************************************************************************)
C25_DeregistrationFrame ==
    [][ \A c \in Conns : (c \in clients /\ c \notin clients') =>
          /\ clients' = clients \ { c }
          /\ sendClosed'[c]
          /\ \A o \in Conns \ { c } : sendClosed'[o] = sendClosed[o] /\ send'[o] = send[o]
          /\ recvSeq' = recvSeq
          /\ sendSeq' = sendSeq
          /\ session' = session
          /\ store' = store ]_vars

\* a connection has been deregistered while another one stays registered
\* with its queue open and a frame in it
C25_Witness ==
    \E c \in Conns, o \in Conns :
        /\ connPc[c] = "live"
        /\ c \notin clients
        /\ sendClosed[c]
        /\ o \in clients
        /\ ~sendClosed[o]
        /\ send[o] # << >>

(***************************************************************************)
(* C26: in every successful handshake response the bytes the server signed *)
(* are the bytes whose base64 encoding is returned in `payload`.           *)
(***************************************************************************)
C26_SignedBytesAreEmitted ==
    [][ (HandlerAnswers /\ hsResp'.Status = 200) =>
           Base64Decode(hsResp'.signature) = SignPayload(Base64Decode(hsResp'.payload)) ]_vars

\* a successful response is in flight as the handler wrote it
C26_Witness ==
    /\ hsResp.Status = 200
    /\ hsResp.sessionId = Len(store)
    /\ Base64Decode(hsResp.signature) = SignPayload(Base64Decode(hsResp.payload))

\* the read loop of c drops the frame it has read in this step
Drops(c) ==
    /\ rdPc[c] = "reading"
    /\ rdDrop'[c] \in { "malformed", "empty", "session", "replay", "aead" }

(***************************************************************************)
(* C27: after the read loop drops a frame (malformed JSON, empty content   *)
(* or iv, session id mismatch, replay or out-of-order, AEAD-open failure)  *)
(* the connection is registered as before with its outbound queue open as  *)
(* before, its close handler has not fired and its websocket is open, and  *)
(* the read loop goes on to the next frame.                                *)
(***************************************************************************)
C27_DropKeepsConnection ==
    [][ \A c \in Conns : Drops(c) =>
          /\ rdPc'[c] = "run"
          /\ clients' = clients
          /\ sendClosed' = sendClosed
          /\ send' = send
          /\ closeCalls' = closeCalls
          /\ once' = once
          /\ connOpen' = connOpen
          /\ wrPc' = wrPc ]_vars

\* a connection that has just dropped a frame that failed to open and is
\* registered with its queue open, next to one that dropped a malformed one
C27_Witness ==
    \E c \in Conns, o \in Conns :
        /\ rdDrop[c] = "aead"
        /\ rdPc[c] = "run"
        /\ c \in clients
        /\ ~sendClosed[c]
        /\ closeCalls[c] = 0
        /\ connOpen[c]
        /\ rdDrop[o] = "malformed"

(***************************************************************************)
(* C28: on the client side, within one session the sequence numbers of the *)
(* frames the client accepts are strictly increasing: a frame whose seqNo  *)
(* is not greater than that of an accepted frame is rejected.              *)
(***************************************************************************)
C28_ClientAcceptsIncreasing ==
    \A i, j \in 1 .. Len(rxAccepted) :
        (i < j /\ rxAccepted[i].t = "number" /\ rxAccepted[j].t = "number")
            => rxAccepted[i].v < rxAccepted[j].v

(***************************************************************************)
(* C29: the receive check is a watermark, not a window: a frame that       *)
(* reaches the check with a seq_no above recv_seq, by whatever gap, is     *)
(* accepted and sets recv_seq to its seq_no; a frame whose seq_no is not   *)
(* above recv_seq is dropped and changes nothing, also when its seq_no lies *)
(* in a skipped gap and was never delivered.                               *)
(***************************************************************************)
ReachesSeqCheck(c, f) ==
    f.json /\ f.Content # NoContent /\ f.IV # "" /\ SessionMatches(f, c)

C29_Watermark ==
    [][ \A c \in Conns, f \in LiveFrames :
          (ReadMessage(c, f) /\ ReachesSeqCheck(c, f)) =>
              IF f.SeqNo > recvSeq[session[c]]
              THEN /\ recvSeq'[session[c]] = f.SeqNo
                   /\ rdDrop'[c] # "replay"
              ELSE /\ rdDrop'[c] = "replay"
                   /\ recvSeq' = recvSeq
                   /\ deliveredSeqs' = deliveredSeqs ]_vars

\* a frame from the gap has just been dropped: its seq_no is below the
\* watermark, and no frame with that seq_no was ever delivered
C29_Witness ==
    \E c \in Conns :
        /\ rdDrop[c] = "replay"
        /\ rdSeq[c] > 0
        /\ rdSeq[c] < recvSeq[session[c]]
        /\ rdSeq[c] \notin deliveredSeqs[session[c]]

(***************************************************************************)
(* C30: under any interleaving of concurrent AdvanceRecvSeq calls on one   *)
(* session: recv_seq never decreases; every call that returns true had seq *)
(* strictly greater than the value of recv_seq it replaced; among          *)
(* concurrent calls with the same seq exactly one returns true; every call *)
(* terminates once the other callers stop; and after all calls finish      *)
(* recv_seq equals the largest seq that returned true.                     *)
(***************************************************************************)
RecvNeverDecreases ==
    [][ recvSeq'[SeqSession] >= recvSeq[SeqSession] ]_vars

\* a call that leaves its compare-and-swap for the caller has returned true
TrueReplacesSmaller ==
    [][ \A k \in Callers :
          (callPc[k] = "cas" /\ callPc'[k] = "idle") =>
              /\ callArg[k] > recvSeq[SeqSession]
              /\ recvSeq'[SeqSession] = callArg[k] ]_vars

AdvanceTerminates ==
    \A k \in Callers : InAdvance(k) ~> ~InAdvance(k)

AllFinished == \A k \in Callers : callPc[k] = "idle"

LargestAccepted ==
    CHOOSE m \in returned.adv : \A n \in returned.adv : n <= m

EndsAtLargest ==
    []((AllFinished /\ returned.adv # {}) => recvSeq[SeqSession] = LargestAccepted)

\* the statement as made: of two calls with the same seq that overlapped,
\* exactly one returned true
C30_ExactlyOne ==
    /\ RecvNeverDecreases
    /\ TrueReplacesSmaller
    /\ [](\A a, b \in advLog : b.id \in a.with => (a.ok # b.ok))
    /\ AdvanceTerminates
    /\ EndsAtLargest

\* as the code behaves: of all calls with the same seq, overlapping or not,
\* at most one returned true, and a call that returned false had found
\* recv_seq at or above its seq, so every finished call leaves
\* recv_seq >= seq
C30_AtMostOne ==
    /\ RecvNeverDecreases
    /\ TrueReplacesSmaller
    /\ [](\A a, b \in advLog : (a.id # b.id /\ a.seq = b.seq) => ~(a.ok /\ b.ok))
    /\ [](\A a \in advLog : recvSeq[SeqSession] >= a.seq)
    /\ AdvanceTerminates
    /\ EndsAtLargest

\* two calls with the same seq have overlapped; one returned true and the
\* other false, every caller is back, and recv_seq is that seq
C30_Witness ==
    /\ AllFinished
    /\ \E a, b \in advLog :
          /\ b.id \in a.with
          /\ a.ok /\ ~b.ok
          /\ recvSeq[SeqSession] = a.seq

(***************************************************************************)
(* C31: an inbound frame that is not valid JSON, or whose content or iv is *)
(* empty, is dropped before any session state is touched: recv_seq and     *)
(* send_seq are unchanged, no AEAD-open is attempted and nothing is        *)
(* delivered to the hub.                                                   *)
(***************************************************************************)
DropsUnparsed(c) ==
    /\ rdPc[c] = "reading"
    /\ rdDrop'[c] \in { "malformed", "empty" }

C31_UnparsedTouchesNothing ==
    [][ \A c \in Conns : DropsUnparsed(c) =>
          /\ recvSeq' = recvSeq
          /\ sendSeq' = sendSeq
          /\ advanced' = advanced
          /\ opened' = opened
          /\ deliveredSeqs' = deliveredSeqs
          /\ rdMsg' = rdMsg
          /\ rdPc'[c] # "deliver"
          /\ hubVars' = hubVars ]_vars

\* a connection whose session has keys and has accepted nothing has just
\* dropped a frame without content or iv
C31_Witness ==
    \E c \in Conns :
        /\ rdDrop[c] = "empty"
        /\ KeyC2S(session[c]) # NilKey
        /\ recvSeq[session[c]] = 0
        /\ c \in clients

(***************************************************************************)
(* C32: register, unregister and dispatch events are processed one at a    *)
(* time by the hub loop: the set of targets of a dispatch is exactly the   *)
(* set of connections whose registration was processed and whose           *)
(* unregistration was not processed before that dispatch event was         *)
(* dequeued, and no membership change takes effect in the middle of a      *)
(* dispatch.                                                               *)
(***************************************************************************)
\* registration processed (the pumps were started), unregistration not
\* (the outbound queue has not been closed)
Processed == { c \in Conns : connPc[c] = "live" /\ ~sendClosed[c] }

InDispatch == hubPc \in { "range", "send" }

C32_OneAtATime ==
    [][ /\ (~InDispatch /\ InDispatch') =>
              (hubTodo' = Processed /\ clients = Processed)
        /\ InDispatch =>
              /\ clients' = clients
              /\ Processed' = Processed
              /\ hubMsg' = hubMsg \/ (hubTodo = {} /\ ~InDispatch')
              /\ hubTodo' = hubTodo \/ \E t \in hubTodo : hubTodo' = hubTodo \ { t }
        /\ (clients' # clients \/ Processed' # Processed) =>
              (HubAtSelect /\ HubAtSelect') ]_vars

\* in the middle of a dispatch to a registered connection, a registration
\* and an unregistration are waiting to be received
C32_Witness ==
    /\ InDispatch
    /\ hubTodo # clients
    /\ clients # {}
    /\ \E c \in Conns : connPc[c] = "registering"
    /\ \E c \in Conns : rdPc[c] = "unregister" \/ wrPc[c] = "unregister"

(***************************************************************************)
(* C33: for every connection and every interleaving of dispatch,           *)
(* full-queue handling and unregister requests coming from the read loop,  *)
(* the write loop or both: the outbound queue is closed at most once, and  *)
(* nothing is enqueued on it after it has been closed (no double close and *)
(* no send on a closed channel), with either Send implementation present   *)
(* in the source; unregistering a connection that is not in the map is a   *)
(* no-op.                                                                  *)
(***************************************************************************)
UnregistersAbsent(c) ==
    /\ c \notin clients
    /\ \/ rdPc[c] = "unregister" /\ rdPc'[c] = "closeconn"
       \/ wrPc[c] = "unregister" /\ wrPc'[c] = "closeconn"

C33_QueueClosedOnce ==
    /\ [](hubPc \notin Panics)
    /\ [][ \A c \in Conns :
             /\ sendClosed[c] => (sendClosed'[c] /\ Len(send'[c]) <= Len(send[c]))
             /\ UnregistersAbsent(c) =>
                   (clients' = clients /\ sendClosed' = sendClosed /\ send' = send) ]_vars

(***************************************************************************)
(* C34: every inbound frame that the read loop of connection C delivers to *)
(* the hub has sender_id equal to C's client id: a frame that arrives on   *)
(* C, is correctly sealed under C's K_c2s for the triple it declares, but  *)
(* names another client as sender_id is dropped.                           *)
(***************************************************************************)
SealedForOwnTriple(f) ==
    f.Content.bound = << f.SenderID, f.RecipientID, f.SeqNo >>

C34_SenderIsConnection ==
    \A c \in Conns :
        (rdPc[c] = "deliver" /\ SealedForOwnTriple(rdMsg[c].frame))
            => rdMsg[c].frame.SenderID = id[c]

(***************************************************************************)
(* C35: in the browser client, when two joinChat calls overlap, only the   *)
(* handshake that was started last installs its result: a handshake that   *)
(* completes after a newer one has started never writes sessionId, keyC2S  *)
(* or keyS2C and never opens a socket, so the installed keys and the       *)
(* installed sessionId always come from the same handshake.                *)
(***************************************************************************)
Superseded(j) == joinPc[j] = "await" /\ myHandshakeId[j] < currentHandshakeId

C35_LastHandshakeInstalls ==
    /\ [][ \A j \in Joins :
             (Superseded(j) /\ joinPc'[j] # "await") =>
                 /\ installed' = installed
                 /\ currentSocket' = currentSocket
                 /\ socketsOpened' = socketsOpened ]_vars
    /\ [](installed # NoKeys => installed = HandshakeResult(currentHandshakeId))
    /\ [](\A h \in socketsOpened :
            \E j \in Joins : myHandshakeId[j] = h /\ joinPc[j] = "joined")

\* a handshake has resolved after a newer call had started and was
\* abandoned, and the newer one has installed its keys and its socket
C35_Witness ==
    \E i, j \in Joins :
        /\ joinPc[i] = "aborted"
        /\ joinPc[j] = "joined"
        /\ myHandshakeId[i] < myHandshakeId[j]
        /\ installed = HandshakeResult(myHandshakeId[j])
        /\ currentSocket = myHandshakeId[j]

(***************************************************************************)
(* C36: in the browser client, every outgoing frame gets a distinct        *)
(* sequence number taken from a counter that starts at 1 and increases by  *)
(* 1, the AAD it is sealed with uses the same sender, recipient and seqNo  *)
(* as the frame, and frames are put on the socket in increasing seqNo      *)
(* order even when several sendMessage calls are in flight across the      *)
(* asynchronous encryption step, so the server's watermark check rejects   *)
(* none of them as out-of-order.                                           *)
(***************************************************************************)
C36_FramesInOrder ==
    /\ \A m, n \in encrypting : m.seq = n.seq => m = n
    /\ \A m \in encrypting : m.seq \in 1 .. (cliSendSeq - 1)
    /\ \A i \in 1 .. Len(wire) :
          /\ wire[i].seqNo \in 1 .. (cliSendSeq - 1)
          /\ wire[i].aad = << wire[i].senderId, wire[i].recipientId, wire[i].seqNo >>
          /\ \A m \in encrypting : m.seq # wire[i].seqNo
          /\ \A k \in 1 .. Len(wire) : i < k => wire[i].seqNo < wire[k].seqNo
    /\ srvRejected = {}

====
